---- MODULE Spec2Model ----
(***************************************************************************)
(* Model of the BVH ray tracer of wrapperX11 (src/xBvd.h, src/xMath.h,     *)
(* src/xModel.h): bvh_build, bvh_intersect, intersect_triangle, box_hit.   *)
(*                                                                         *)
(* Numbers.  A C float is modelled by an exact fraction <<n, d>> in lowest *)
(* terms with d >= 0.  d > 0 is the finite value n/d; <<1, 0>> is +inf,    *)
(* <<-1, 0>> is -inf and <<0, 0>> is NaN, so that 1.0f / 0.0f and          *)
(* 0.0f * inf behave as IEEE 754 defines them.  Rounding of finite results *)
(* is not modelled: every finite operation is exact.                       *)
(*                                                                         *)
(* norm() divides by a square root, which is not a fraction: a Vec3 that   *)
(* norm() returns carries the squared length it was divided by in a field  *)
(* q ([x, y, z, q] stands for (x, y, z) / sqrt(q)); every other Vec3 has   *)
(* q = 1.                                                                  *)
(***************************************************************************)
EXTENDS Integers, Sequences, FiniteSets, Bags, TLC

(***************************************************************************)
(* float                                                                   *)
(***************************************************************************)
Abs(i) == IF i < 0 THEN -i ELSE i

Sign(i) == IF i < 0 THEN -1 ELSE IF i > 0 THEN 1 ELSE 0

RECURSIVE Gcd(_, _)
Gcd(a, b) == IF b = 0 THEN a ELSE Gcd(b, a % b)

\* the float n/d: lowest terms, d >= 0; x/0 is +inf, -inf or NaN by the sign of x
Flt(n, d) ==
    IF d = 0 THEN <<Sign(n), 0>>
    ELSE LET g == Gcd(Abs(n), Abs(d))
             s == Sign(d)
         IN  <<(s * n) \div g, (s * d) \div g>>

F(i) == <<i, 1>>

PosInf == <<1, 0>>
NegInf == <<-1, 0>>
NaN == <<0, 0>>

IsNaN(a) == a = NaN
IsInf(a) == a[2] = 0 /\ a[1] # 0

\* a + b: inf + (-inf) is NaN, inf + finite is inf
FAdd(a, b) ==
    IF IsNaN(a) \/ IsNaN(b) THEN NaN
    ELSE IF IsInf(a) /\ IsInf(b) THEN (IF a = b THEN a ELSE NaN)
    ELSE IF IsInf(a) THEN a
    ELSE IF IsInf(b) THEN b
    ELSE Flt(a[1] * b[2] + b[1] * a[2], a[2] * b[2])

FNeg(a) == <<-a[1], a[2]>>

FSub(a, b) == FAdd(a, FNeg(b))

\* a * b: 0 * inf is NaN, x * inf is inf with the product's sign
FMul(a, b) == Flt(a[1] * b[1], a[2] * b[2])

\* a / b: x / 0 is inf with x's sign, 0 / 0 is NaN, x / inf is 0
FDiv(a, b) ==
    IF IsNaN(a) \/ IsNaN(b) THEN NaN
    ELSE IF IsInf(a) /\ IsInf(b) THEN NaN
    ELSE IF IsInf(b) THEN F(0)
    ELSE Flt(a[1] * b[2] * Sign(IF b[1] = 0 THEN 1 ELSE b[1]), a[2] * Abs(b[1]))

\* a < b: false when either is NaN
FLt(a, b) ==
    IF IsNaN(a) \/ IsNaN(b) THEN FALSE
    ELSE IF a = b THEN FALSE
    ELSE IF a = NegInf \/ b = PosInf THEN TRUE
    ELSE IF a = PosInf \/ b = NegInf THEN FALSE
    ELSE a[1] * b[2] < b[1] * a[2]

FGt(a, b) == FLt(b, a)

FLe(a, b) == ~IsNaN(a) /\ ~IsNaN(b) /\ (a = b \/ FLt(a, b))

FGe(a, b) == FLe(b, a)

\* fminf / fmaxf: the other operand when one is NaN
fminf(a, b) == IF IsNaN(a) THEN b ELSE IF IsNaN(b) THEN a ELSE IF FLt(b, a) THEN b ELSE a

fmaxf(a, b) == IF IsNaN(a) THEN b ELSE IF IsNaN(b) THEN a ELSE IF FLt(a, b) THEN b ELSE a

fabsf(a) == <<Abs(a[1]), a[2]>>

(***************************************************************************)
(* xMath.h                                                                 *)
(***************************************************************************)
vec3(x, y, z) == [x |-> x, y |-> y, z |-> z, q |-> F(1)]

\* a Vec3 of whole numbers
V(x, y, z) == vec3(F(x), F(y), F(z))

add(a, b) == vec3(FAdd(a.x, b.x), FAdd(a.y, b.y), FAdd(a.z, b.z))

sub(a, b) == vec3(FSub(a.x, b.x), FSub(a.y, b.y), FSub(a.z, b.z))

mul(v, t) == vec3(FMul(v.x, t), FMul(v.y, t), FMul(v.z, t))

dot(a, b) == FAdd(FAdd(FMul(a.x, b.x), FMul(a.y, b.y)), FMul(a.z, b.z))

cross(a, b) ==
    vec3(FSub(FMul(a.y, b.z), FMul(a.z, b.y)),
         FSub(FMul(a.z, b.x), FMul(a.x, b.z)),
         FSub(FMul(a.x, b.y), FMul(a.y, b.x)))

\* v / sqrt(dot(v,v)) when the squared length is positive, v itself otherwise
norm(v) ==
    LET l2 == dot(v, v)
    IN  IF FGt(l2, F(0)) THEN [x |-> v.x, y |-> v.y, z |-> v.z, q |-> l2] ELSE v

\* ((float*)&v)[i]
Axis(v, i) == IF i = 0 THEN v.x ELSE IF i = 1 THEN v.y ELSE v.z

(***************************************************************************)
(* xBvd.h: boxes                                                           *)
(***************************************************************************)
EPSILON == Flt(1, 10000)

STACK_SIZE == 64

NULL == 0

min3(a, b, c) == fminf(fminf(a, b), c)

max3(a, b, c) == fmaxf(fmaxf(a, b), c)

box_tri(t) ==
    [min |-> vec3(min3(t.v0.x, t.v1.x, t.v2.x), min3(t.v0.y, t.v1.y, t.v2.y),
                  min3(t.v0.z, t.v1.z, t.v2.z)),
     max |-> vec3(max3(t.v0.x, t.v1.x, t.v2.x), max3(t.v0.y, t.v1.y, t.v2.y),
                  max3(t.v0.z, t.v1.z, t.v2.z))]

box_merge(a, b) ==
    [min |-> vec3(fminf(a.min.x, b.min.x), fminf(a.min.y, b.min.y), fminf(a.min.z, b.min.z)),
     max |-> vec3(fmaxf(a.max.x, b.max.x), fmaxf(a.max.y, b.max.y), fmaxf(a.max.z, b.max.z))]

\* mutant: tmax < tmin
SlabEmpty_Strict(tmin, tmax) == FLt(tmax, tmin)

\* the exit test of one axis of box_hit: the clipped interval is empty
SlabEmpty(tmin, tmax) == FLe(tmax, tmin)

\* box_hit's loop from axis i on, with the interval clipped so far
RECURSIVE SlabLoop(_, _, _, _, _)
SlabLoop(box, ray, tmin, tmax, i) ==
    IF i >= 3 THEN TRUE
    ELSE LET inv  == FDiv(F(1), Axis(ray.direction, i))
             a0   == FMul(FSub(Axis(box.min, i), Axis(ray.origin, i)), inv)
             a1   == FMul(FSub(Axis(box.max, i), Axis(ray.origin, i)), inv)
             swap == FLt(inv, F(0))
             t0   == IF swap THEN a1 ELSE a0
             t1   == IF swap THEN a0 ELSE a1
             lo   == IF FGt(t0, tmin) THEN t0 ELSE tmin
             hi   == IF FLt(t1, tmax) THEN t1 ELSE tmax
         IN  IF SlabEmpty(lo, hi) THEN FALSE ELSE SlabLoop(box, ray, lo, hi, i + 1)

box_hit(box, ray, tmin, tmax) == SlabLoop(box, ray, tmin, tmax, 0)

(***************************************************************************)
(* xBvd.h: build                                                           *)
(***************************************************************************)
\* mutant: (a < b) - (a > b), a descending order
cmp_Descending(axis, a, b) ==
    (IF FLt(Axis(a.center, axis), Axis(b.center, axis)) THEN 1 ELSE 0)
    - (IF FGt(Axis(a.center, axis), Axis(b.center, axis)) THEN 1 ELSE 0)

\* cmp_x (axis 0), cmp_y (axis 1), cmp_z (axis 2): (a > b) - (a < b) on the centers
cmp(axis, a, b) ==
    (IF FGt(Axis(a.center, axis), Axis(b.center, axis)) THEN 1 ELSE 0)
    - (IF FLt(Axis(a.center, axis), Axis(b.center, axis)) THEN 1 ELSE 0)

\* the orders of the items with indices S in which no item precedes a smaller one
\* (of several equal items the first is taken: whichever is, the orders are the same)
RECURSIVE Orders(_, _, _)
Orders(items, axis, S) ==
    IF S = {} THEN {<<>>}
    ELSE UNION {{<<items[i]>> \o rest : rest \in Orders(items, axis, S \ {i})} :
                i \in {j \in S : /\ \A k \in S : cmp(axis, items[j], items[k]) <= 0
                                 /\ \A k \in S : items[k] = items[j] => j <= k}}

\* qsort(items, n, sizeof(Item), cmp): sorted; the order of equal items is unspecified
qsort(items, axis) == Orders(items, axis, 1 .. Len(items))

RECURSIVE MergeBoxes(_, _, _)
MergeBoxes(items, b, i) ==
    IF i > Len(items) THEN b ELSE MergeBoxes(items, box_merge(b, box_tri(items[i].tri)), i + 1)

\* mutant: the loop that merges the other items' boxes is missing
NodeBounds_FirstOnly(items) == box_tri(items[1].tri)

\* the bounds loop of build
NodeBounds(items) == MergeBoxes(items, box_tri(items[1].tri), 2)

\* mutant: n < 4
IsLeafSize_Below(n) == n < 4

\* the leaf threshold of build
IsLeafSize(n) == n <= 4

\* mutant: >= for > in both comparisons
SplitAxis_TiesLast(bounds) ==
    LET extent == sub(bounds.max, bounds.min)
        axis   == IF FGe(extent.y, extent.x) THEN 1 ELSE 0
    IN  IF FGe(extent.z, Axis(extent, axis)) THEN 2 ELSE axis

\* the split axis of build, from the extent of the node's bounds
SplitAxis(bounds) ==
    LET extent == sub(bounds.max, bounds.min)
        axis   == IF FGt(extent.y, extent.x) THEN 1 ELSE 0
    IN  IF FGt(extent.z, Axis(extent, axis)) THEN 2 ELSE axis

\* mutant: node->mats[i] = items[0].mat
LeafNode_FirstMat(items) ==
    [bounds |-> NodeBounds(items), left |-> NULL, right |-> NULL,
     tris |-> [i \in 1 .. Len(items) |-> items[i].tri],
     mats |-> [i \in 1 .. Len(items) |-> items[1].mat],
     count |-> Len(items)]

LeafNode(items) ==
    [bounds |-> NodeBounds(items), left |-> NULL, right |-> NULL,
     tris |-> [i \in 1 .. Len(items) |-> items[i].tri],
     mats |-> [i \in 1 .. Len(items) |-> items[i].mat],
     count |-> Len(items)]

InnerNode(items, l, r) ==
    [bounds |-> NodeBounds(items), left |-> l, right |-> r,
     tris |-> <<>>, mats |-> <<>>, count |-> 0]

\* mutant: the left child takes a full leaf, the right child the rest
Mid_FullLeaf(n) == 4

\* const int mid = n / 2
Mid(n) == n \div 2

\* build(items, n) on the heap h: the possible [heap, node] results; the node is
\* allocated before its children, the left subtree before the right one
RECURSIVE build(_, _)
build(items, h) ==
    LET n    == Len(items)
        node == Len(h) + 1
    IN  IF IsLeafSize(n) THEN {[heap |-> Append(h, LeafNode(items)), node |-> node]}
        ELSE LET mid == Mid(n)
             IN  UNION {UNION {{[heap |-> [R.heap EXCEPT ![node] = InnerNode(items, L.node, R.node)],
                                 node |-> node] :
                                R \in build(SubSeq(sorted, mid + 1, n), L.heap)} :
                               L \in build(SubSeq(sorted, 1, mid),
                                           Append(h, InnerNode(items, NULL, NULL)))} :
                        sorted \in qsort(items, SplitAxis(NodeBounds(items)))}

\* the center of a triangle as bvh_build computes it
Center(t) ==
    vec3(FDiv(FAdd(FAdd(t.v0.x, t.v1.x), t.v2.x), F(3)),
         FDiv(FAdd(FAdd(t.v0.y, t.v1.y), t.v2.y), F(3)),
         FDiv(FAdd(FAdd(t.v0.z, t.v1.z), t.v2.z), F(3)))

\* the items of one model
ModelItems(m) ==
    [j \in 1 .. m.num_triangles |->
        [tri |-> m.transformed_triangles[j], mat |-> m.mat,
         center |-> Center(m.transformed_triangles[j])]]

\* the items array bvh_build fills from models[from .. Len(models)]
RECURSIVE FillItems(_, _)
FillItems(models, from) ==
    IF from > Len(models) THEN <<>>
    ELSE ModelItems(models[from]) \o FillItems(models, from + 1)

RECURSIVE Total(_, _)
Total(models, from) ==
    IF from > Len(models) THEN 0 ELSE models[from].num_triangles + Total(models, from + 1)

\* mutant: only models[0].num_triangles is looked at
bvh_build_FirstOnly(models, h) ==
    IF Len(models) = 0 \/ models[1].num_triangles = 0 THEN {[heap |-> h, node |-> NULL]}
    ELSE build(FillItems(models, 1), h)

\* bvh_build(models, num) on the heap h: the possible [heap, node] results
bvh_build(models, h) ==
    IF Total(models, 1) = 0 THEN {[heap |-> h, node |-> NULL]}
    ELSE build(FillItems(models, 1), h)

(***************************************************************************)
(* xBvd.h: bvh_free                                                        *)
(***************************************************************************)
\* what a call does to memory, in order: it reads the node at a pointer, or hands a
\* block (a node, or the tris or mats array of a node) to free()
Reads(n) == [op |-> "read", node |-> n]

Frees(kind, n) == [op |-> "free", kind |-> kind, node |-> n]

\* mutant: bvh_free(n->right) is missing
RECURSIVE bvh_free_LeftOnly(_, _)
bvh_free_LeftOnly(h, n) ==
    IF n = NULL THEN <<>>
    ELSE <<Reads(n)>>
         \o (IF h[n].count # 0 THEN <<Frees("tris", n), Frees("mats", n)>>
             ELSE bvh_free_LeftOnly(h, h[n].left))
         \o <<Frees("node", n)>>

\* bvh_free(n) on the heap h
RECURSIVE bvh_free(_, _)
bvh_free(h, n) ==
    IF n = NULL THEN <<>>
    ELSE <<Reads(n)>>
         \o (IF h[n].count # 0 THEN <<Frees("tris", n), Frees("mats", n)>>
             ELSE bvh_free(h, h[n].left) \o bvh_free(h, h[n].right))
         \o <<Frees("node", n)>>

(***************************************************************************)
(* xBvd.h: intersect_triangle                                              *)
(***************************************************************************)
\* mutant: && for || in both barycentric tests
OutsideTriangle_And(u, v) ==
    \/ FLt(u, F(0)) /\ FGt(u, F(1))
    \/ FLt(v, F(0)) /\ FGt(FAdd(u, v), F(1))

\* the two barycentric tests of intersect_triangle: the point is rejected
OutsideTriangle(u, v) ==
    \/ FLt(u, F(0)) \/ FGt(u, F(1))
    \/ FLt(v, F(0)) \/ FGt(FAdd(u, v), F(1))

\* mutant: the test against the record's t is missing
OutOfRange_NoUpper(t, rec) == FLt(t, EPSILON)

\* mutant: t > rec->t for t >= rec->t
OutOfRange_Gt(t, rec) == FLt(t, EPSILON) \/ FGt(t, rec.t)

\* mutant: t <= EPSILON for t < EPSILON
OutOfRange_LowerOpen(t, rec) == FLe(t, EPSILON) \/ FGe(t, rec.t)

\* the range test of intersect_triangle: t is rejected
OutOfRange(t, rec) == FLt(t, EPSILON) \/ FGe(t, rec.t)

\* the record intersect_triangle writes on acceptance
Accept(ray, edge1, edge2, t, mat) ==
    [hit |-> TRUE, t |-> t, point |-> add(ray.origin, mul(ray.direction, t)),
     normal |-> norm(cross(edge1, edge2)), mat |-> mat]

\* mutant: the test of fabsf(a) against EPSILON is missing
intersect_triangle_NoGuard(ray, tri, mat, rec) ==
    LET edge1 == sub(tri.v1, tri.v0)
        edge2 == sub(tri.v2, tri.v0)
        h     == cross(ray.direction, edge2)
        a     == dot(edge1, h)
        f     == FDiv(F(1), a)
        s     == sub(ray.origin, tri.v0)
        u     == FMul(f, dot(s, h))
        q     == cross(s, edge1)
        v     == FMul(f, dot(ray.direction, q))
        t     == FMul(f, dot(edge2, q))
    IN  IF OutsideTriangle(u, v) THEN [ret |-> FALSE, rec |-> rec]
        ELSE IF OutOfRange(t, rec) THEN [ret |-> FALSE, rec |-> rec]
        ELSE [ret |-> TRUE, rec |-> Accept(ray, edge1, edge2, t, mat)]

\* intersect_triangle(ray, tri, mat, rec): [ret, rec]
intersect_triangle(ray, tri, mat, rec) ==
    LET edge1 == sub(tri.v1, tri.v0)
        edge2 == sub(tri.v2, tri.v0)
        h     == cross(ray.direction, edge2)
        a     == dot(edge1, h)
        f     == FDiv(F(1), a)
        s     == sub(ray.origin, tri.v0)
        u     == FMul(f, dot(s, h))
        q     == cross(s, edge1)
        v     == FMul(f, dot(ray.direction, q))
        t     == FMul(f, dot(edge2, q))
    IN  IF FLt(fabsf(a), EPSILON) THEN [ret |-> FALSE, rec |-> rec]
        ELSE IF OutsideTriangle(u, v) THEN [ret |-> FALSE, rec |-> rec]
        ELSE IF OutOfRange(t, rec) THEN [ret |-> FALSE, rec |-> rec]
        ELSE [ret |-> TRUE, rec |-> Accept(ray, edge1, edge2, t, mat)]

(***************************************************************************)
(* The scenes, rays and records the caller draws from                      *)
(***************************************************************************)
\* the capacity of the caller's model array (xModelCreate's max)
MaxModels == 2

\* the calls of bvh_intersect the caller makes with one ray and one record
MaxPasses == 2

\* the trees the caller of a multi-tree scene builds
MaxTrees == 2

\* the capacity of the model array of each tree of a multi-tree scene
MaxTreeModels == 1

\* the threads of the parallel render loop
MaxThreads == 2

\* the capacity of the model array of a scene that is built and not queried
MaxBuildModels == 3

Tri(a, b, c) == [v0 |-> a, v1 |-> b, v2 |-> c]

Model(tris, mat) == [transformed_triangles |-> tris, num_triangles |-> Len(tris), mat |-> mat]

\* two triangles in the plane z = 0 (a square), material 1
Floor == Model(<<Tri(V(0, 0, 0), V(3, 0, 0), V(0, 3, 0)),
                 Tri(V(3, 3, 0), V(0, 3, 0), V(3, 0, 0))>>, 1)

\* one triangle in the plane z = 2, material 2
Wall == Model(<<Tri(V(0, 0, 2), V(3, 0, 2), V(0, 3, 2))>>, 2)

\* two triangles in the slanted plane z = 3 + y and one in the plane z = 7 + y/3
\* above them, material 3
Wedge == Model(<<Tri(V(0, 0, 3), V(3, 0, 3), V(0, 3, 6)),
                 Tri(V(3, 3, 6), V(0, 3, 6), V(3, 0, 3)),
                 Tri(V(0, 0, 7), V(3, 0, 7), V(0, 3, 8))>>, 3)

\* a model that loaded no triangle, material 4
Empty == Model(<<>>, 4)

\* one zero-area triangle (three collinear vertices), material 5
Sliver == Model(<<Tri(V(0, 0, 0), V(1, 1, 1), V(2, 2, 2))>>, 5)

\* one triangle in the plane z = 4, which cuts Wedge's slanted plane along the line
\* y = 1, material 6
Shelf == Model(<<Tri(V(0, 0, 4), V(3, 0, 4), V(0, 3, 4))>>, 6)

\* the same triangle three times, in the plane z = 1 + y/3, material 7
Pile == Model(<<Tri(V(0, 0, 1), V(3, 0, 1), V(0, 3, 2)),
                Tri(V(0, 0, 1), V(3, 0, 1), V(0, 3, 2)),
                Tri(V(0, 0, 1), V(3, 0, 1), V(0, 3, 2))>>, 7)

\* three triangles in the planes z = 3, z = 2 and z = 1, two wide in x and three long
\* in y; their centroids rise in x as they fall in y and z; material 8
Stair == Model(<<Tri(V(0, 2, 3), V(1, 2, 3), V(0, 3, 3)),
                 Tri(V(0, 1, 2), V(2, 1, 2), V(0, 2, 2)),
                 Tri(V(1, 0, 1), V(2, 0, 1), V(1, 1, 1))>>, 8)

\* the meshes the caller can load, by name
ModelMenu == {"Floor", "Wall", "Wedge", "Empty", "Sliver"}

\* the meshes of a scene that is built in two orders
PermMenu == ModelMenu \cup {"Shelf"}

\* the meshes of a scene that is built and not queried: 0, 2, 3, 3 and 3 triangles
BuildMenu == {"Empty", "Floor", "Wedge", "Pile", "Stair"}

\* the xModel a name stands for, once loaded and transformed
ModelOf(name) ==
    CASE name = "Floor" -> Floor
      [] name = "Wall" -> Wall
      [] name = "Wedge" -> Wedge
      [] name = "Empty" -> Empty
      [] name = "Sliver" -> Sliver
      [] name = "Shelf" -> Shelf
      [] name = "Pile" -> Pile
      [] name = "Stair" -> Stair

\* the xModel array behind a sequence of names
Scene(names) == [k \in 1 .. Len(names) |-> ModelOf(names[k])]

Ray(o, d) == [origin |-> o, direction |-> d]

Rays ==
    {Ray(V(1, 1, -1), V(0, 0, 1)),    \* up through the centroids at (1, 1)
     Ray(V(1, 1, 9), V(0, 0, -1)),    \* down through the same points
     Ray(V(2, 2, -1), V(0, 0, 1)),    \* up through (2, 2): outside Wall's triangle
     Ray(V(2, 3, 1), V(2, 0, 1)),     \* between the triangles' boxes, through none of them
     Ray(V(-1, -1, -1), V(1, 1, 1)),  \* along the diagonal, through the vertex (0, 0, 0)
     Ray(V(-1, 1, 2), V(1, -1, 1))}   \* touching Wedge's box at its corner (0, 0, 3) only

\* the caller's sentinel distance: above every distance of the scenes above
Far == F(1000000)

\* HitRecord rec = { .hit = false, .t = sentinel }
Fresh == [hit |-> FALSE, t |-> Far, point |-> V(0, 0, 0), normal |-> V(0, 0, 0), mat |-> 0]

\* a record left by an earlier call against other geometry: a hit at distance 2
Earlier == [hit |-> TRUE, t |-> F(2), point |-> V(9, 9, 9), normal |-> V(1, 0, 0), mat |-> 9]

InitRecs == {Fresh, Earlier}

(***************************************************************************)
(* core.h: the framebuffer of a window (X11 backend)                       *)
(***************************************************************************)
\* the addresses calloc can return
MaxBlocks == 3

Addresses == 1 .. MaxBlocks

\* bWidth * bHeight * sizeof(uint32_t) after windowInit
BufferBytes == 800 * 600 * 4

\* windowInit: no display, no window, no image, no buffer.  image says whether
\* w->image is set and data is image->data; live holds the addresses that are
\* allocated, wild the addresses handed to free() while they were not; op and ret
\* are the last call and what it returned.
NoWindow ==
    [display |-> FALSE, window |-> FALSE, image |-> FALSE, data |-> NULL,
     buffer |-> NULL, buffer_valid |-> FALSE, buffer_size |-> 0,
     live |-> {}, wild |-> {}, op |-> "windowInit", ret |-> TRUE]

\* free(p) for p # NULL
Free(w, p) ==
    IF p \in w.live THEN [w EXCEPT !.live = @ \ {p}] ELSE [w EXCEPT !.wild = @ \cup {p}]

\* XDestroyImage(w->image): Xlib frees image->data and the XImage
XDestroyImage(w) == IF w.data # NULL THEN Free(w, w.data) ELSE w

freeBuffer(w) ==
    [(IF w.buffer # NULL THEN [Free(w, w.buffer) EXCEPT !.buffer = NULL] ELSE w)
        EXCEPT !.buffer_valid = FALSE, !.buffer_size = 0]

\* what calloc can return: NULL or an address that is not allocated
Calloc(w) == {NULL} \cup (Addresses \ w.live)

\* resizeBuffer from the calloc on, calloc having returned p and XCreateImage an image
\* or NULL
Resized(w, p, created) ==
    IF p = NULL THEN [w EXCEPT !.buffer = NULL, !.ret = FALSE]
    ELSE LET w2 == [w EXCEPT !.buffer = p, !.live = @ \cup {p},
                             !.buffer_size = BufferBytes, !.buffer_valid = TRUE]
             w3 == IF w2.image THEN [XDestroyImage(w2) EXCEPT !.image = FALSE, !.data = NULL]
                   ELSE w2
         IN  IF created THEN [w3 EXCEPT !.image = TRUE, !.data = w3.buffer, !.ret = TRUE]
             ELSE [freeBuffer(w3) EXCEPT !.ret = FALSE]

\* resizeBuffer(w): the possible results
resizeBuffer(w) ==
    LET w1 == IF w.buffer_valid THEN freeBuffer(w) ELSE w
    IN  {Resized(w1, p, created) : p \in Calloc(w1), created \in BOOLEAN}

\* createWindow(w): XOpenDisplay or XCreateSimpleWindow gave nothing, or the window
\* is there and resizeBuffer decides
createWindow(w) ==
    {[w EXCEPT !.display = FALSE, !.ret = FALSE]}
        \cup {IF r.ret THEN r ELSE [r EXCEPT !.display = FALSE, !.window = FALSE] :
                 r \in resizeBuffer([w EXCEPT !.display = TRUE, !.window = TRUE])}

destroyWindow(w) ==
    IF ~w.display THEN w
    ELSE LET w1 == IF w.image
                     THEN [XDestroyImage(w) EXCEPT !.image = FALSE, !.data = NULL,
                                                   !.buffer = NULL]
                     ELSE w
         IN  [freeBuffer(w1) EXCEPT !.window = FALSE, !.display = FALSE]

(***************************************************************************)
(* core.h: keys, mouse buttons, input state (X11 backend)                  *)
(***************************************************************************)
KEY_UNKNOWN == 0

KEY_ESCAPE == 1

KEY_A == 10

KEY_COUNT == 56

MOUSE_LEFT == 0

MOUSE_MIDDLE == 1

MOUSE_RIGHT == 2

MOUSE_COUNT == 3

\* the buttons of an XButtonEvent
Button1 == 1

Button2 == 2

Button3 == 3

\* the atom XInternAtom returns for WM_DELETE_WINDOW
WmDeleteMessage == 1

\* the events the X server queues for the window
XKey(type, sym) == [type |-> type, sym |-> sym]

XButton(type, button) == [type |-> type, button |-> button]

XMotion(x, y) == [type |-> "MotionNotify", x |-> x, y |-> y]

XClient(atom) == [type |-> "ClientMessage", atom |-> atom]

XConfigure(w, h) == [type |-> "ConfigureNotify", width |-> w, height |-> h]

\* the capacity of the X event queue between two polls
MaxQueue == 2

\* the events the X server sends: a goes down and up, F5 (a key the switch does not
\* map) goes down, the left button goes down and up, the pointer moves, the window
\* is resized, the window manager closes it
EventMenu ==
    {XKey("KeyPress", "XK_a"), XKey("KeyRelease", "XK_a"), XKey("KeyPress", "XK_F5"),
     XButton("ButtonPress", Button1), XButton("ButtonRelease", Button1),
     XMotion(410, 300), XConfigure(640, 480), XClient(WmDeleteMessage)}

\* windowInit: the fields pollEvents reads and writes
windowInit == [width |-> 800, height |-> 600, resized |-> FALSE]

\* inputInit
inputInit ==
    [key_curr |-> [k \in 0 .. KEY_COUNT - 1 |-> FALSE],
     key_prev |-> [k \in 0 .. KEY_COUNT - 1 |-> FALSE],
     mouse_curr |-> [b \in 0 .. MOUSE_COUNT - 1 |-> FALSE],
     mouse_prev |-> [b \in 0 .. MOUSE_COUNT - 1 |-> FALSE],
     mouse_x |-> 0, mouse_y |-> 0, mouse_dx |-> 0, mouse_dy |-> 0,
     last_x |-> 0, last_y |-> 0, mouse_grabbed |-> FALSE,
     center_x |-> 400, center_y |-> 300]

setKey(in, key, down) ==
    IF key < KEY_COUNT THEN [in EXCEPT !.key_curr[key] = down] ELSE in

setMouse(in, btn, down) ==
    IF btn < MOUSE_COUNT THEN [in EXCEPT !.mouse_curr[btn] = down] ELSE in

\* updateInput: copy current to previous
updateInput(in) == [in EXCEPT !.key_prev = in.key_curr, !.mouse_prev = in.mouse_curr]

isKeyDown(in, key) == IF key < KEY_COUNT THEN in.key_curr[key] ELSE FALSE

isKeyPressed(in, key) ==
    IF key < KEY_COUNT THEN in.key_curr[key] /\ ~in.key_prev[key] ELSE FALSE

isKeyReleased(in, key) ==
    IF key < KEY_COUNT THEN ~in.key_curr[key] /\ in.key_prev[key] ELSE FALSE

isMouseDown(in, btn) == IF btn < MOUSE_COUNT THEN in.mouse_curr[btn] ELSE FALSE

isMousePressed(in, btn) ==
    IF btn < MOUSE_COUNT THEN in.mouse_curr[btn] /\ ~in.mouse_prev[btn] ELSE FALSE

isMouseReleased(in, btn) ==
    IF btn < MOUSE_COUNT THEN ~in.mouse_curr[btn] /\ in.mouse_prev[btn] ELSE FALSE

\* the switch on the keysym in pollEvents
KeyOfSym(sym) ==
    CASE sym = "XK_Escape" -> KEY_ESCAPE
      [] sym \in {"XK_a", "XK_A"} -> KEY_A
      [] OTHER -> KEY_UNKNOWN

\* one pass of the XPending loop of pollEvents on the event ev: [input, shouldClose]
HandleEvent(st, ev) ==
    LET in == st.input
    IN  CASE ev.type = "ClientMessage" ->
               [st EXCEPT !.shouldClose = IF ev.atom = WmDeleteMessage THEN TRUE ELSE @]
          [] ev.type = "MotionNotify" ->
               [st EXCEPT !.input =
                   [in EXCEPT !.mouse_dx = IF in.mouse_grabbed THEN @ + (ev.x - in.last_x) ELSE @,
                              !.mouse_dy = IF in.mouse_grabbed THEN @ + (ev.y - in.last_y) ELSE @,
                              !.mouse_x = ev.x, !.mouse_y = ev.y,
                              !.last_x = ev.x, !.last_y = ev.y]]
          [] ev.type \in {"ButtonPress", "ButtonRelease"} ->
               LET down == ev.type = "ButtonPress"
               IN  [st EXCEPT !.input =
                       CASE ev.button = Button1 -> setMouse(in, MOUSE_LEFT, down)
                         [] ev.button = Button2 -> setMouse(in, MOUSE_MIDDLE, down)
                         [] ev.button = Button3 -> setMouse(in, MOUSE_RIGHT, down)
                         [] OTHER -> in]
          [] ev.type \in {"KeyPress", "KeyRelease"} ->
               LET down == ev.type = "KeyPress"
                   k    == KeyOfSym(ev.sym)
               IN  [st EXCEPT !.input = IF k # KEY_UNKNOWN THEN setKey(in, k, down) ELSE in]
          [] OTHER -> st

\* the XPending loop of pollEvents over the queued events q, from index j on
RECURSIVE HandleEvents(_, _, _)
HandleEvents(st, q, j) ==
    IF j > Len(q) THEN st ELSE HandleEvents(HandleEvent(st, q[j]), q, j + 1)

IsConfigure(ev) == ev.type = "ConfigureNotify"

IsOther(ev) == ev.type # "ConfigureNotify"

\* the XCheckTypedWindowEvent loop of pollEvents over the ConfigureNotify events q
RECURSIVE HandleResize(_, _, _)
HandleResize(w, q, j) ==
    IF j > Len(q) THEN w
    ELSE HandleResize(IF q[j].width # w.width \/ q[j].height # w.height
                        THEN [w EXCEPT !.width = q[j].width, !.height = q[j].height,
                                       !.resized = TRUE]
                        ELSE w, q, j + 1)

\* the pointer is put back to the centre after a grabbed motion
Recenter(in) ==
    IF in.mouse_grabbed /\ (in.mouse_dx # 0 \/ in.mouse_dy # 0)
      THEN [in EXCEPT !.last_x = in.center_x, !.last_y = in.center_y]
      ELSE in

\* pollEvents(win, input) with the events q pending: [input, win, shouldClose]
pollEvents(w, in, q) ==
    LET st == HandleEvents([input |-> [in EXCEPT !.mouse_dx = 0, !.mouse_dy = 0],
                            shouldClose |-> FALSE],
                           SelectSeq(q, IsOther), 1)
    IN  [input |-> updateInput(Recenter(st.input)),
         win |-> HandleResize(w, SelectSeq(q, IsConfigure), 1),
         shouldClose |-> st.shouldClose]

\* grabMouse(display, window, width, height, input)
grabMouse(in, width, height) ==
    IF in.mouse_grabbed THEN in
    ELSE [in EXCEPT !.center_x = width \div 2, !.center_y = height \div 2,
                    !.last_x = width \div 2, !.last_y = height \div 2,
                    !.mouse_grabbed = TRUE, !.mouse_dx = 0, !.mouse_dy = 0]

\* releaseMouse(display, window, input)
releaseMouse(in) ==
    IF ~in.mouse_grabbed THEN in
    ELSE [in EXCEPT !.mouse_grabbed = FALSE, !.mouse_dx = 0, !.mouse_dy = 0]

(***************************************************************************)
(* State                                                                   *)
(***************************************************************************)
VARIABLES
    models,   \* the caller's model array: the name of each model's mesh
    heap,     \* the BVHNodes allocated so far; a BVHNode* is an index, NULL is 0
    roots,    \* the roots bvh_build returned, in order
    scenes,   \* history: the model array each bvh_build was given
    ray,      \* the ray of the current query
    rec,      \* the caller's HitRecord
    recInit,  \* history: rec when the current ray was set up
    rec0,     \* history: rec on entry to the current bvh_intersect call
    passes,   \* history: the trees bvh_intersect was called on with this ray and record
    stack,    \* bvh_intersect: stack[0 .. sp-1]
    hit,      \* bvh_intersect: hit
    node,     \* bvh_intersect: n, while its leaf loop runs
    i,        \* bvh_intersect: the leaf loop's i
    ret,      \* the value the last bvh_intersect call returned
    pc,       \* "scene", "built", "ready", "loop", "leaf", "done"
    pushed,   \* history: the nodes the current bvh_intersect call has put on its stack
    parked,   \* the threads of the render loop that are not running: a bag of contexts
    input,    \* the application's Input
    win,      \* the application's Window_t: width, height, resized
    xqueue,   \* the events the X server has queued for the window
    polled,   \* history: the last pollEvents call: the key and button events it
              \* consumed, the keys and buttons that were down before it, its result
    probe,    \* the last direct call of intersect_triangle or box_hit: its arguments
              \* and its result
    mem,      \* the calls of bvh_free so far: the tree and what the call read and freed
    xwin      \* the X11 window: its display, image and buffer, and the blocks of memory

vars == <<models, heap, roots, scenes, ray, rec, recInit, rec0, passes, stack, hit, node, i, ret,
          pc, pushed, parked, input, win, xqueue, polled, probe, mem, xwin>>

sp == Len(stack)

NoRay == Ray(V(0, 0, 0), V(0, 0, 0))

\* no direct call has been made
NoProbe == [op |-> "none"]

\* no pollEvents call has been made
NoPoll ==
    [called |-> FALSE, keys |-> <<>>, buttons |-> <<>>,
     key_before |-> inputInit.key_curr, mouse_before |-> inputInit.mouse_curr, ret |-> FALSE]

\* a thread of the render loop that has not set up its ray yet
StartCtx ==
    [ray |-> NoRay, rec |-> Fresh, recInit |-> Fresh, rec0 |-> Fresh, passes |-> <<>>,
     stack |-> <<>>, hit |-> FALSE, node |-> NULL, i |-> 0, ret |-> FALSE, pc |-> "built",
     pushed |-> <<>>]

Init ==
    /\ models = <<>>
    /\ heap = <<>>
    /\ roots = <<>>
    /\ scenes = <<>>
    /\ ray = NoRay
    /\ rec = Fresh
    /\ recInit = Fresh
    /\ rec0 = Fresh
    /\ passes = <<>>
    /\ stack = <<>>
    /\ hit = FALSE
    /\ node = NULL
    /\ i = 0
    /\ ret = FALSE
    /\ pc = "scene"
    /\ pushed = <<>>
    /\ parked = [c \in {StartCtx} |-> MaxThreads - 1]
    /\ input = inputInit
    /\ win = windowInit
    /\ xqueue = <<>>
    /\ polled = NoPoll
    /\ probe = NoProbe
    /\ mem = <<>>
    /\ xwin = NoWindow

sceneVars == <<models, heap, roots, scenes>>
callVars == <<stack, hit, node, i, ret, pushed>>
inputVars == <<input, win, xqueue, polled>>
otherVars == <<parked, inputVars, probe, mem, xwin>>

(***************************************************************************)
(* The caller                                                              *)
(***************************************************************************)
\* xModelCreate, xModelLoad and xModelUpdate: one more model in the array
AddModel(m, max) ==
    /\ pc = "scene"
    /\ Len(models) < max
    /\ models' = Append(models, m)
    /\ UNCHANGED <<heap, roots, scenes, ray, rec, recInit, rec0, passes, pc>>
    /\ UNCHANGED callVars
    /\ UNCHANGED otherVars

\* root = bvh_build(models, num_models), for at most limit trees
BuildTree(limit) ==
    /\ pc = "scene"
    /\ Len(roots) < limit
    /\ \E b \in bvh_build(Scene(models), heap) :
          /\ heap' = b.heap
          /\ roots' = Append(roots, b.node)
    /\ scenes' = Append(scenes, models)
    /\ pc' = "built"
    /\ UNCHANGED <<models, ray, rec, recInit, rec0, passes>>
    /\ UNCHANGED callVars
    /\ UNCHANGED otherVars

\* the caller starts a second model array (storage, count = 0) for its next tree
NewModelArray ==
    /\ pc = "built"
    /\ Len(roots) < MaxTrees
    /\ models' = <<>>
    /\ pc' = "scene"
    /\ UNCHANGED <<heap, roots, scenes, ray, rec, recInit, rec0, passes>>
    /\ UNCHANGED callVars
    /\ UNCHANGED otherVars

\* the orders of 1 .. n
Perms(n) == {p \in [1 .. n -> 1 .. n] : \A a, b \in 1 .. n : p[a] = p[b] => a = b}

\* the caller puts the models of its array in the order p and builds a second tree
\* from them: root2 = bvh_build(models, num_models)
Rebuild(p) ==
    /\ pc = "built"
    /\ Len(roots) = 1
    /\ LET reordered == [k \in 1 .. Len(models) |-> models[p[k]]]
       IN  /\ models' = reordered
           /\ scenes' = Append(scenes, reordered)
           /\ \E b \in bvh_build(Scene(reordered), heap) :
                 /\ heap' = b.heap
                 /\ roots' = Append(roots, b.node)
    /\ UNCHANGED <<ray, rec, recInit, rec0, passes, pc>>
    /\ UNCHANGED callVars
    /\ UNCHANGED otherVars

\* the box of the triangles of Wedge
WedgeBox == NodeBounds(ModelItems(Wedge))

\* a leaf the caller fills by hand with one triangle
HandLeaf(tri, mat) ==
    [bounds |-> WedgeBox, left |-> NULL, right |-> NULL,
     tris |-> <<tri>>, mats |-> <<mat>>, count |-> 1]

\* BVHNodes the caller links by hand, at base + 1 .. base + 2d + 1: a chain of d
\* internal nodes, each with a leaf to the left and the rest of the chain to the
\* right.  The two leaves under the last internal node hold Wedge's first triangle,
\* every other leaf its third, which lies behind the first.
ChainHeap(base, d) ==
    [j \in 1 .. 2 * d + 1 |->
        IF j % 2 = 1 /\ j < 2 * d + 1
          THEN [bounds |-> WedgeBox, left |-> base + j + 1, right |-> base + j + 2,
                tris |-> <<>>, mats |-> <<>>, count |-> 0]
          ELSE IF j >= 2 * d
            THEN HandLeaf(Wedge.transformed_triangles[1], 1)
            ELSE HandLeaf(Wedge.transformed_triangles[3], 3)]

\* the depth of the shortest chain on which the guard of the pushes refuses
ChainDepth == STACK_SIZE - 1

\* the caller makes a tree of its own, without bvh_build
HandTree(d) ==
    /\ pc = "scene"
    /\ Len(roots) = 0
    /\ heap' = heap \o ChainHeap(Len(heap), d)
    /\ roots' = Append(roots, Len(heap) + 1)
    /\ scenes' = Append(scenes, models)
    /\ pc' = "built"
    /\ UNCHANGED <<models, ray, rec, recInit, rec0, passes>>
    /\ UNCHANGED callVars
    /\ UNCHANGED otherVars

\* the caller sets up a ray and a record for it.  Every variable of a query is
\* overwritten here, so a query starts from the same state whatever queries came
\* before it: a behaviour follows one ray.
NewRay(r, init) ==
    /\ pc = "built"
    /\ ray' = r
    /\ rec' = init
    /\ recInit' = init
    /\ rec0' = init
    /\ passes' = <<>>
    /\ stack' = <<>>
    /\ hit' = FALSE
    /\ node' = NULL
    /\ i' = 0
    /\ ret' = FALSE
    /\ pushed' = <<>>
    /\ pc' = "ready"
    /\ UNCHANGED sceneVars
    /\ UNCHANGED otherVars

(***************************************************************************)
(* bvh_intersect                                                           *)
(***************************************************************************)
\* the lower end of the range bvh_intersect gives box_hit
T_MIN == Flt(1, 1000)

\* mutant: the guard lets nothing onto a stack that holds an entry
HasRoom_OneEntry(n) == n + 2 < 3

\* the capacity guard before the two pushes
HasRoom(n) == n + 2 < STACK_SIZE

\* mutant: hit = intersect_triangle(...)
NextHit_Overwrite(h, accepted) == accepted

\* if (intersect_triangle(...)) hit = true;
NextHit(h, accepted) == IF accepted THEN TRUE ELSE h

\* mutant: stack[sp++] = n for stack[sp++] = n->right
Push_Self(h, rest, n) ==
    IF HasRoom(Len(rest)) THEN rest \o <<h[n].left, n>> ELSE rest

\* the stack after the pushes of an internal node n, rest being the stack below
Push(h, rest, n) ==
    IF HasRoom(Len(rest)) THEN rest \o <<h[n].left, h[n].right>> ELSE rest

\* the leaf loop from index j on: [rec, hit]
RECURSIVE LeafLoop(_, _, _, _, _, _)
LeafLoop(h, n, r, rc, ht, j) ==
    IF j >= h[n].count THEN [rec |-> rc, hit |-> ht]
    ELSE LET res == intersect_triangle(r, h[n].tris[j + 1], h[n].mats[j + 1], rc)
         IN  LeafLoop(h, n, r, res.rec, NextHit(ht, res.ret), j + 1)

\* while (sp > 0) { ... } return hit, from the stack stk on: [ret, rec]
RECURSIVE WhileLoop(_, _, _, _, _)
WhileLoop(h, stk, r, rc, ht) ==
    IF Len(stk) = 0 THEN [ret |-> ht, rec |-> rc]
    ELSE LET n    == stk[Len(stk)]
             rest == SubSeq(stk, 1, Len(stk) - 1)
         IN  IF ~box_hit(h[n].bounds, r, T_MIN, rc.t) THEN WhileLoop(h, rest, r, rc, ht)
             ELSE IF h[n].count # 0
               THEN LET l == LeafLoop(h, n, r, rc, ht, 0)
                    IN  WhileLoop(h, rest, r, l.rec, l.hit)
               ELSE WhileLoop(h, Push(h, rest, n), r, rc, ht)

\* bvh_intersect(root, ray, rec) as one call on the heap h: [ret, rec]
bvh_intersect(h, root, r, rc) ==
    IF root = NULL THEN [ret |-> FALSE, rec |-> rc]
    ELSE WhileLoop(h, <<root>>, r, rc, FALSE)

\* mutant: if (!root) return true
Call_NullTrue(k) ==
    /\ pc \in {"ready", "done"}
    /\ k \in 1 .. Len(roots)
    /\ Len(passes) < MaxPasses
    /\ passes' = Append(passes, k)
    /\ rec0' = rec
    /\ hit' = FALSE
    /\ node' = NULL
    /\ i' = 0
    /\ IF roots[k] = NULL
         THEN /\ stack' = <<>>
              /\ ret' = TRUE
              /\ pc' = "done"
         ELSE /\ stack' = <<roots[k]>>
              /\ ret' = ret
              /\ pc' = "loop"
    /\ pushed' = stack'
    /\ UNCHANGED <<ray, rec, recInit>>
    /\ UNCHANGED sceneVars
    /\ UNCHANGED otherVars

\* entry: if (!root) return false; stack[sp++] = root; hit = false
Call(k) ==
    /\ pc \in {"ready", "done"}
    /\ k \in 1 .. Len(roots)
    /\ Len(passes) < MaxPasses
    /\ passes' = Append(passes, k)
    /\ rec0' = rec
    /\ hit' = FALSE
    /\ node' = NULL
    /\ i' = 0
    /\ IF roots[k] = NULL
         THEN /\ stack' = <<>>
              /\ ret' = FALSE
              /\ pc' = "done"
         ELSE /\ stack' = <<roots[k]>>
              /\ ret' = ret
              /\ pc' = "loop"
    /\ pushed' = stack'
    /\ UNCHANGED <<ray, rec, recInit>>
    /\ UNCHANGED sceneVars
    /\ UNCHANGED otherVars

\* one iteration of while (sp > 0) up to the leaf loop: pop, box test, push
Pop ==
    /\ pc = "loop"
    /\ sp > 0
    /\ LET n    == stack[sp]
           rest == SubSeq(stack, 1, sp - 1)
       IN  IF ~box_hit(heap[n].bounds, ray, T_MIN, rec.t)
             THEN /\ stack' = rest
                  /\ UNCHANGED <<node, i, pc>>
             ELSE IF heap[n].count # 0
               THEN /\ stack' = rest
                    /\ node' = n
                    /\ i' = 0
                    /\ pc' = "leaf"
               ELSE /\ stack' = Push(heap, rest, n)
                    /\ UNCHANGED <<node, i, pc>>
    /\ pushed' = pushed \o SubSeq(stack', sp, Len(stack'))
    /\ UNCHANGED <<ray, rec, recInit, rec0, passes, hit, ret>>
    /\ UNCHANGED sceneVars
    /\ UNCHANGED otherVars

\* one iteration of the leaf loop: intersect_triangle on tris[i]
TestTri ==
    /\ pc = "leaf"
    /\ LET r == intersect_triangle(ray, heap[node].tris[i + 1], heap[node].mats[i + 1], rec)
       IN  /\ rec' = r.rec
           /\ hit' = NextHit(hit, r.ret)
    /\ IF i + 1 < heap[node].count
         THEN /\ i' = i + 1
              /\ UNCHANGED <<node, pc>>
         ELSE /\ i' = 0
              /\ node' = NULL
              /\ pc' = "loop"
    /\ UNCHANGED <<ray, recInit, rec0, passes, stack, ret, pushed>>
    /\ UNCHANGED sceneVars
    /\ UNCHANGED otherVars

\* the stack is empty: return hit
Return ==
    /\ pc = "loop"
    /\ sp = 0
    /\ ret' = hit
    /\ pc' = "done"
    /\ UNCHANGED <<ray, rec, recInit, rec0, passes, stack, hit, node, i, pushed>>
    /\ UNCHANGED sceneVars
    /\ UNCHANGED otherVars

\* one scene, one tree, any number of rays
Next ==
    \/ \E m \in ModelMenu : AddModel(m, MaxModels)
    \/ BuildTree(1)
    \/ \E r \in Rays, init \in InitRecs : NewRay(r, init)
    \/ \E k \in 1 .. Len(roots) : Call(k)
    \/ Pop
    \/ TestTri
    \/ Return

Spec == Init /\ [][Next]_vars

\* several trees, each from its own models, queried with one record
NextTrees ==
    \/ \E m \in ModelMenu : AddModel(m, MaxTreeModels)
    \/ BuildTree(MaxTrees)
    \/ NewModelArray
    \/ \E r \in Rays, init \in InitRecs : NewRay(r, init)
    \/ \E k \in 1 .. Len(roots) : Call(k)
    \/ Pop
    \/ TestTri
    \/ Return

SpecTrees == Init /\ [][NextTrees]_vars

\* one scene, built twice: in the order given and again in another order
NextPerm ==
    \/ \E m \in PermMenu : AddModel(m, MaxModels)
    \/ BuildTree(1)
    \/ \E p \in Perms(Len(models)) : Rebuild(p)
    \/ \E r \in Rays, init \in InitRecs : NewRay(r, init)
    \/ \E k \in 1 .. Len(roots) : Call(k)
    \/ Pop
    \/ TestTri
    \/ Return

SpecPerm == Init /\ [][NextPerm]_vars

\* the condition of while (sp > 0) with the loop at its head: Pop can act, and
\* every Pop step changes the stack
PopEnabled == pc = "loop" /\ sp > 0

\* the leaf loop has an iteration left: TestTri can act, and every TestTri step
\* changes i or pc
TestTriEnabled == pc = "leaf"

\* Spec with a caller that runs: a call it has entered goes on until it returns.
\* The second and third conjunct are WF_vars(Pop) and WF_vars(TestTri) with
\* ENABLED written out as the guards above.
SpecLive ==
    /\ Spec
    /\ WF_vars(Return)
    /\ ([]<>(~PopEnabled) \/ []<><<Pop>>_vars)
    /\ ([]<>(~TestTriEnabled) \/ []<><<TestTri>>_vars)

\* one scene and its tree
NextBuild ==
    \/ \E m \in BuildMenu : AddModel(m, MaxBuildModels)
    \/ BuildTree(1)

SpecBuild == Init /\ [][NextBuild]_vars

(***************************************************************************)
(* The parallel render loop: every thread runs bvh_intersect on the one    *)
(* tree with a ray and a record of its own.  The variables of a query are  *)
(* those of the running thread; a thread that is not running is parked.    *)
(***************************************************************************)
\* the running thread's ray, record and bvh_intersect frame
Ctx ==
    [ray |-> ray, rec |-> rec, recInit |-> recInit, rec0 |-> rec0, passes |-> passes,
     stack |-> stack, hit |-> hit, node |-> node, i |-> i, ret |-> ret, pc |-> pc,
     pushed |-> pushed]

\* mutant: static bool hit, one for all threads
Switch_SharedHit(c) ==
    /\ pc # "scene"
    /\ BagIn(c, parked)
    /\ parked' = (parked (-) SetToBag({c})) (+) SetToBag({Ctx})
    /\ ray' = c.ray
    /\ rec' = c.rec
    /\ recInit' = c.recInit
    /\ rec0' = c.rec0
    /\ passes' = c.passes
    /\ stack' = c.stack
    /\ hit' = hit
    /\ node' = c.node
    /\ i' = c.i
    /\ ret' = c.ret
    /\ pc' = c.pc
    /\ pushed' = c.pushed
    /\ UNCHANGED sceneVars
    /\ UNCHANGED <<inputVars, probe, mem, xwin>>

\* the scheduler parks the running thread and runs the parked thread c; the loop's
\* threads exist once the tree is built
Switch(c) ==
    /\ pc # "scene"
    /\ BagIn(c, parked)
    /\ parked' = (parked (-) SetToBag({c})) (+) SetToBag({Ctx})
    /\ ray' = c.ray
    /\ rec' = c.rec
    /\ recInit' = c.recInit
    /\ rec0' = c.rec0
    /\ passes' = c.passes
    /\ stack' = c.stack
    /\ hit' = c.hit
    /\ node' = c.node
    /\ i' = c.i
    /\ ret' = c.ret
    /\ pc' = c.pc
    /\ pushed' = c.pushed
    /\ UNCHANGED sceneVars
    /\ UNCHANGED <<inputVars, probe, mem, xwin>>

\* the one call of bvh_intersect each thread makes for its ray
CallOnce(k) == Len(passes) = 0 /\ Call(k)

\* the mesh of the scene the loop renders, loaded once or several times
ThreadMenu == {"Wedge"}

\* the rays of the loop's threads: one strikes Wedge from below, one from above, one
\* passes every triangle
ThreadRays ==
    {Ray(V(1, 1, -1), V(0, 0, 1)), Ray(V(1, 1, 9), V(0, 0, -1)), Ray(V(2, 3, 1), V(2, 0, 1))}

NextThreads ==
    \/ \E m \in ThreadMenu : AddModel(m, MaxModels)
    \/ BuildTree(1)
    \/ \E r \in ThreadRays : NewRay(r, Fresh)
    \/ \E k \in 1 .. Len(roots) : CallOnce(k)
    \/ Pop
    \/ TestTri
    \/ Return
    \/ \E c \in BagToSet(parked) : Switch(c)

SpecThreads == Init /\ [][NextThreads]_vars

\* a deep tree made by hand, queried by rays through its box
NextDeep ==
    \/ \E d \in {ChainDepth - 1, ChainDepth} : HandTree(d)
    \/ \E r \in ThreadRays, init \in InitRecs : NewRay(r, init)
    \/ \E k \in 1 .. Len(roots) : CallOnce(k)
    \/ Pop
    \/ TestTri
    \/ Return

SpecDeep == Init /\ [][NextDeep]_vars

(***************************************************************************)
(* core.h: the frame loop of an application that polls the window          *)
(***************************************************************************)
\* the key the event sets, KEY_UNKNOWN for an event that sets none
EventKey(ev) ==
    IF ev.type \in {"KeyPress", "KeyRelease"} THEN KeyOfSym(ev.sym) ELSE KEY_UNKNOWN

\* the button the event sets, MOUSE_COUNT for an event that sets none
EventButton(ev) ==
    IF ev.type \notin {"ButtonPress", "ButtonRelease"} THEN MOUSE_COUNT
    ELSE CASE ev.button = Button1 -> MOUSE_LEFT
           [] ev.button = Button2 -> MOUSE_MIDDLE
           [] ev.button = Button3 -> MOUSE_RIGHT
           [] OTHER -> MOUSE_COUNT

IsKeyEvent(ev) == ev.type \in {"KeyPress", "KeyRelease"}

IsButtonEvent(ev) == ev.type \in {"ButtonPress", "ButtonRelease"}

\* the key events among the queued events q, in order: [type, key]
KeyEvents(q) ==
    LET kq == SelectSeq(q, IsKeyEvent)
    IN  [j \in 1 .. Len(kq) |-> [type |-> kq[j].type, key |-> EventKey(kq[j])]]

\* the button events among the queued events q, in order: [type, btn]
ButtonEvents(q) ==
    LET bq == SelectSeq(q, IsButtonEvent)
    IN  [j \in 1 .. Len(bq) |-> [type |-> bq[j].type, btn |-> EventButton(bq[j])]]

bvhVars == <<sceneVars, callVars, ray, rec, recInit, rec0, passes, pc, parked, probe, mem, xwin>>

\* the X server queues an event for the window
XSend(ev) ==
    /\ Len(xqueue) < MaxQueue
    /\ xqueue' = Append(xqueue, ev)
    /\ UNCHANGED <<input, win, polled>>
    /\ UNCHANGED bvhVars

\* the application calls pollEvents at the start of a frame
PollEvents ==
    /\ LET r == pollEvents(win, input, xqueue)
       IN  /\ input' = r.input
           /\ win' = r.win
           /\ polled' = [called |-> TRUE, keys |-> KeyEvents(xqueue),
                         buttons |-> ButtonEvents(xqueue),
                         key_before |-> input.key_curr, mouse_before |-> input.mouse_curr,
                         ret |-> r.shouldClose]
    /\ xqueue' = <<>>
    /\ UNCHANGED bvhVars

\* the application grabs the pointer with the window's size
GrabMouse ==
    /\ ~input.mouse_grabbed
    /\ input' = grabMouse(input, win.width, win.height)
    /\ UNCHANGED <<win, xqueue, polled>>
    /\ UNCHANGED bvhVars

\* the application releases the pointer
ReleaseMouse ==
    /\ input.mouse_grabbed
    /\ input' = releaseMouse(input)
    /\ UNCHANGED <<win, xqueue, polled>>
    /\ UNCHANGED bvhVars

\* an application that follows the frame protocol: pollEvents once per frame, no
\* call of updateInput of its own
NextInput ==
    \/ \E ev \in EventMenu : XSend(ev)
    \/ PollEvents
    \/ GrabMouse
    \/ ReleaseMouse

SpecInput == Init /\ [][NextInput]_vars

(***************************************************************************)
(* xBvd.h: a scene of up to MaxBuildModels models, built and queried       *)
(***************************************************************************)
NextQuery ==
    \/ \E m \in BuildMenu : AddModel(m, MaxBuildModels)
    \/ BuildTree(1)
    \/ \E r \in Rays, init \in InitRecs : NewRay(r, init)
    \/ \E k \in 1 .. Len(roots) : CallOnce(k)
    \/ Pop
    \/ TestTri
    \/ Return

SpecQuery == Init /\ [][NextQuery]_vars

(***************************************************************************)
(* xBvd.h: a scene whose tree is built and freed                           *)
(***************************************************************************)
\* the caller frees tree k, once
FreeTree(k) ==
    /\ pc = "built"
    /\ k \in 1 .. Len(roots)
    /\ \A c \in 1 .. Len(mem) : mem[c].tree # k
    /\ mem' = Append(mem, [tree |-> k, did |-> bvh_free(heap, roots[k])])
    /\ UNCHANGED <<sceneVars, callVars, ray, rec, recInit, rec0, passes, pc, parked>>
    /\ UNCHANGED <<inputVars, probe, xwin>>

NextFree ==
    \/ \E m \in BuildMenu : AddModel(m, MaxBuildModels)
    \/ BuildTree(1)
    \/ \E k \in 1 .. Len(roots) : FreeTree(k)

SpecFree == Init /\ [][NextFree]_vars

(***************************************************************************)
(* xBvd.h: intersect_triangle called on its own                            *)
(***************************************************************************)
Box(lo, hi) == [min |-> lo, max |-> hi]

treeVars == <<sceneVars, callVars, ray, rec, recInit, rec0, passes, pc, parked>>

\* a triangle with legs of length 1 in the plane z = 0, a triangle of Floor, the one
\* of Wall, and the zero-area triangle of Sliver
TriMenu ==
    {Tri(V(0, 0, 0), V(1, 0, 0), V(0, 1, 0)), Floor.transformed_triangles[1],
     Wall.transformed_triangles[1], Sliver.transformed_triangles[1]}

\* origins on, inside and outside the edges of the unit triangle, one unit, EPSILON
\* and half of EPSILON below the plane z = 0 and one unit above it
TriOrigins ==
    {vec3(x, y, z) : x \in {F(0), Flt(1, 2), F(1), F(2)}, y \in {F(0), Flt(1, 2), F(2)},
                     z \in {F(-1), FNeg(EPSILON), Flt(-1, 20000), F(1)}}

\* directions up and down the z axis and along the x axis (in the plane of the flat
\* triangles)
TriDirections == {V(0, 0, 1), V(0, 0, -1), V(1, 0, 0)}

\* directions up the z axis with length EPSILON and half of EPSILON
ShortDirections == {vec3(F(0), F(0), EPSILON), vec3(F(0), F(0), Flt(1, 20000))}

\* the rays: every origin with every direction of length 1, the origins at a whole
\* distance from the plane z = 0 with the short directions
TriRays ==
    {Ray(o, d) : o \in TriOrigins, d \in TriDirections}
        \cup {Ray(o, d) : o \in {p \in TriOrigins : p.z \in {F(-1), F(1)}}, d \in ShortDirections}

\* a record whose t is the distance of the plane z = 0 from the origins one unit away
Nearer == [hit |-> TRUE, t |-> F(1), point |-> V(9, 9, 9), normal |-> V(1, 0, 0), mat |-> 9]

\* a record without a hit, its t beyond every distance of the rays above
Distant == [Fresh EXCEPT !.t = F(100000)]

TriRecs == {Distant, Earlier, Nearer}

\* intersect_triangle(r, tri, mat, &rc), the one call of a run
CallIntersectTriangle(r, tri, mat, rc) ==
    /\ probe = NoProbe
    /\ probe' = [op |-> "intersect_triangle", ray |-> r, tri |-> tri, mat |-> mat, rec |-> rc,
                 res |-> intersect_triangle(r, tri, mat, rc)]
    /\ UNCHANGED treeVars
    /\ UNCHANGED <<inputVars, mem, xwin>>

NextTri ==
    \E r \in TriRays, tri \in TriMenu, rc \in TriRecs :
        CallIntersectTriangle(r, tri, 1, rc)

SpecTri == Init /\ [][NextTri]_vars

(***************************************************************************)
(* xBvd.h: box_hit called on its own                                       *)
(***************************************************************************)

\* a cube, the flat box of a triangle of Floor, the box of Wedge, and the box of a
\* triangle whose vertices coincide
BoxMenu ==
    {Box(V(0, 0, 0), V(3, 3, 3)), box_tri(Floor.transformed_triangles[1]), WedgeBox,
     Box(V(1, 1, 1), V(1, 1, 1))}

\* origins before, on, inside, on and behind the faces of the boxes
BoxOrigins == {V(x, y, z) : x \in {-1, 0, 1, 3, 4}, y \in {1, 4}, z \in {-1, 0, 3, 5}}

\* directions along one axis, in a coordinate plane, along no axis, and of length 0
BoxDirections ==
    {V(0, 0, 1), V(0, 0, -1), V(1, 0, 0), V(0, 1, 1), V(1, 0, -1), V(1, 1, 1), V(0, 0, 0)}

\* the upper end of the interval: the sentinel of a fresh record and a hit at t = 2
BoxLimits == {Far, F(2)}

\* box_hit(box, r, tmin, tmax), the one call of a run
CallBoxHit(box, r, tmin, tmax) ==
    /\ probe = NoProbe
    /\ probe' = [op |-> "box_hit", box |-> box, ray |-> r, tmin |-> tmin, tmax |-> tmax,
                 ret |-> box_hit(box, r, tmin, tmax)]
    /\ UNCHANGED treeVars
    /\ UNCHANGED <<inputVars, mem, xwin>>

NextBox ==
    \E box \in BoxMenu, o \in BoxOrigins, d \in BoxDirections, tmax \in BoxLimits :
        CallBoxHit(box, Ray(o, d), T_MIN, tmax)

SpecBox == Init /\ [][NextBox]_vars

(***************************************************************************)
(* xBvd.h: the two tests of bvh_intersect on one triangle and a box        *)
(* around it                                                               *)
(***************************************************************************)
\* a box with every triangle of TriMenu well inside it
Roomy == Box(V(-2, -2, -2), V(4, 4, 4))

\* the boxes around a triangle: its own and the roomy one
BoxesAround(tri) == {box_tri(tri), Roomy}

\* a record with a hit at t = 0.0005, between EPSILON and the 0.001f of bvh_intersect
Close == [hit |-> TRUE, t |-> Flt(1, 2000), point |-> V(9, 9, 9), normal |-> V(1, 0, 0), mat |-> 9]

\* if (!box_hit(box, r, 0.001f, rc.t)) ... and intersect_triangle(r, tri, mat, &rc),
\* the one pair of calls of a run
CallBoth(box, r, tri, mat, rc) ==
    /\ probe = NoProbe
    /\ probe' = [op |-> "both", box |-> box, ray |-> r, tri |-> tri, mat |-> mat, rec |-> rc,
                 passes |-> box_hit(box, r, T_MIN, rc.t),
                 accepts |-> intersect_triangle(r, tri, mat, rc).ret]
    /\ UNCHANGED treeVars
    /\ UNCHANGED <<inputVars, mem, xwin>>

NextBoth ==
    \E r \in TriRays, tri \in TriMenu, rc \in TriRecs \cup {Close} :
        \E box \in BoxesAround(tri) : CallBoth(box, r, tri, 1, rc)

SpecBoth == Init /\ [][NextBoth]_vars

(***************************************************************************)
(* What the claims speak of                                                *)
(***************************************************************************)
\* the (triangle, material) items tree k was built from, in input order
TreeItems(k) == FillItems(Scene(scenes[k]), 1)

\* the tree of the current (or last) bvh_intersect call
CurTree == passes[Len(passes)]

\* a linear scan: intersect_triangle on every item in turn, from index j on
RECURSIVE LinearScan(_, _, _, _)
LinearScan(items, r, res, j) ==
    IF j > Len(items) THEN res
    ELSE LET one == intersect_triangle(r, items[j].tri, items[j].mat, res.rec)
         IN  LinearScan(items, r, [ret |-> res.ret \/ one.ret, rec |-> one.rec], j + 1)

Scan(items, r, rc) == LinearScan(items, r, [ret |-> FALSE, rec |-> rc], 1)

\* intersect_triangle on one item alone against the record rc
Alone(item, r, rc) == intersect_triangle(r, item.tri, item.mat, rc)

\* the step-wise call and the call as a whole end alike
StepwiseAgrees ==
    pc = "done" =>
        bvh_intersect(heap, roots[CurTree], ray, rec0) = [ret |-> ret, rec |-> rec]

\* the call in progress or just returned was entered with a fresh record
FreshCall == rec0 = Fresh

Zero3 == V(0, 0, 0)

\* the point of the ray r at parameter t
At(r, t) == add(r.origin, mul(r.direction, t))

PointInBox(p, b) ==
    \A a \in 0 .. 2 : FLe(Axis(b.min, a), Axis(p, a)) /\ FLe(Axis(p, a), Axis(b.max, a))

\* the parameters at which the ray r crosses a face plane of the box b, and 0
Crossings(r, b) ==
    {F(0)} \cup
    {FDiv(FSub(Axis(c, a), Axis(r.origin, a)), Axis(r.direction, a)) :
        <<a, c>> \in {x \in (0 .. 2) \X {b.min, b.max} : Axis(r.direction, x[1]) # F(0)}}

\* the ray r (t >= 0) has a point in the closed box b; the points of a ray in a box
\* form a closed interval of t, which starts at 0 or at a crossing
RayMeetsBox(r, b) ==
    \E t \in Crossings(r, b) : FGe(t, F(0)) /\ PointInBox(At(r, t), b)

FaceNormal(tri) == cross(sub(tri.v1, tri.v0), sub(tri.v2, tri.v0))

Parallel(a, b) == cross(a, b) = Zero3

\* r starts off the triangle on the line through its centroid along its face normal
\* and points at the centroid
AimedAtCentroid(r, tri) ==
    LET w == sub(Center(tri), r.origin)
    IN  /\ w # Zero3
        /\ Parallel(w, FaceNormal(tri))
        /\ Parallel(r.direction, w)
        /\ FGt(dot(r.direction, w), F(0))

\* the items of tree k the ray r strikes when each is tested alone with a fresh record
Struck(k, r) == {j \in 1 .. Len(TreeItems(k)) : Alone(TreeItems(k)[j], r, Fresh).ret}

StruckT(k, r, j) == Alone(TreeItems(k)[j], r, Fresh).rec.t

(***************************************************************************)
(* C1: for every built tree and every ray, bvh_intersect with a fresh      *)
(* record ends with the hit flag and the t of a linear scan that applies   *)
(* intersect_triangle to every input triangle in turn.                     *)
(***************************************************************************)
C1_SameAsLinearScan ==
    (pc = "done" /\ FreshCall) =>
        LET lin == Scan(TreeItems(CurTree), ray, Fresh)
        IN  /\ ret = lin.ret
            /\ rec.hit = lin.rec.hit
            /\ rec.t = lin.rec.t

(***************************************************************************)
(* C2: of two triangles of the tree that the ray both strikes, T1 nearer   *)
(* than T2, bvh_intersect with a fresh record never reports T2's distance, *)
(* and reports T1's distance and material when T1 is the nearest struck.   *)
(***************************************************************************)
C2_NearerWins ==
    (pc = "done" /\ FreshCall) =>
        \A j1, j2 \in Struck(CurTree, ray) :
            FLt(StruckT(CurTree, ray, j1), StruckT(CurTree, ray, j2)) =>
                /\ ret /\ rec.hit
                /\ rec.t # StruckT(CurTree, ray, j2)
                /\ (\A j \in Struck(CurTree, ray) :
                        FLe(StruckT(CurTree, ray, j1), StruckT(CurTree, ray, j)))
                   => /\ rec.t = StruckT(CurTree, ray, j1)
                      /\ rec.mat = TreeItems(CurTree)[j1].mat

(***************************************************************************)
(* C3: a scene of exactly one triangle builds a single leaf without        *)
(* children, and bvh_intersect returns what intersect_triangle on that     *)
(* triangle returns and leaves the same record, for every ray and record.  *)
(***************************************************************************)
C3_SingleTriangle ==
    (pc = "done" /\ Len(TreeItems(CurTree)) = 1) =>
        LET root   == roots[CurTree]
            direct == Alone(TreeItems(CurTree)[1], ray, rec0)
        IN  /\ root # NULL
            /\ heap[root].count = 1
            /\ heap[root].left = NULL /\ heap[root].right = NULL
            /\ ret = direct.ret
            /\ rec = direct.rec

(***************************************************************************)
(* C4: for a triangle of positive area in the tree, a ray from a point off *)
(* the triangle on the normal line through its centroid, aimed at the      *)
(* centroid, gives hit = true; when no other triangle is struck before it, *)
(* t is the distance to the plane (unit direction) and the normal is       *)
(* parallel to the face normal, with its sign.                             *)
(***************************************************************************)
C4_CentroidRay ==
    (pc = "done" /\ FreshCall) =>
        \A j \in 1 .. Len(TreeItems(CurTree)) :
            LET tri == TreeItems(CurTree)[j].tri
                w   == sub(Center(tri), ray.origin)
            IN  (FaceNormal(tri) # Zero3 /\ AimedAtCentroid(ray, tri)) =>
                    /\ ret /\ rec.hit
                    /\ (\A o \in Struck(CurTree, ray) :
                            o # j => FGt(StruckT(CurTree, ray, o), StruckT(CurTree, ray, j)))
                       => /\ dot(ray.direction, ray.direction) = F(1)
                             => FMul(rec.t, rec.t) = dot(w, w)
                          /\ Parallel(rec.normal, FaceNormal(tri))
                          /\ FGt(dot(rec.normal, FaceNormal(tri)), F(0))

(***************************************************************************)
(* C5: when the ray passes through the bounding box of no triangle of the  *)
(* scene, bvh_intersect with a fresh record returns false and the record's *)
(* hit flag stays false.                                                   *)
(***************************************************************************)
MissesEveryBox(k, r) ==
    \A j \in 1 .. Len(TreeItems(k)) : ~RayMeetsBox(r, box_tri(TreeItems(k)[j].tri))

C5_NoBoxNoHit ==
    (pc = "done" /\ FreshCall /\ MissesEveryBox(CurTree, ray)) => (~ret /\ ~rec.hit)

C5_Witness ==
    /\ pc = "done" /\ FreshCall
    /\ roots[CurTree] # NULL
    /\ RayMeetsBox(ray, heap[roots[CurTree]].bounds)
    /\ MissesEveryBox(CurTree, ray)

(***************************************************************************)
(* C6: during a call of bvh_intersect every write to rec.t stores a value  *)
(* strictly smaller than the one it replaces and not below EPSILON, so     *)
(* rec.t on return is at most rec.t on entry.                              *)
(***************************************************************************)
LowersT ==
    pc \in {"loop", "leaf"} =>
        (rec' = rec \/ (FLt(rec'.t, rec.t) /\ FGe(rec'.t, EPSILON)))

C6_TNeverIncreases ==
    /\ [][LowersT]_vars
    /\ [](pc = "done" => FLe(rec.t, rec0.t))

C6_Witness == pc = "done" /\ rec0 = Earlier /\ FLt(rec.t, rec0.t)

(***************************************************************************)
(* C7: bvh_intersect returns true exactly when this call lowered rec.t (a  *)
(* triangle was accepted); then rec.hit is true; and rec.hit on return is  *)
(* rec.hit on entry or the return value.                                   *)
(***************************************************************************)
C7_ReturnIffAccepted ==
    pc = "done" =>
        /\ ret <=> FLt(rec.t, rec0.t)
        /\ ret => rec.hit
        /\ rec.hit <=> (rec0.hit \/ ret)

C7_Witness ==
    /\ pc = "done" /\ Len(passes) = 2 /\ recInit = Fresh
    /\ rec0.hit /\ ~ret /\ rec.hit

(***************************************************************************)
(* C8: when bvh_intersect returns false, every field of the record is as   *)
(* it was on entry.                                                        *)
(***************************************************************************)
C8_NoHitNoChange == (pc = "done" /\ ~ret) => rec = rec0

C8_Witness ==
    /\ pc = "done" /\ ~ret /\ rec0 = Earlier
    /\ Struck(CurTree, ray) # {}

(***************************************************************************)
(* C9: bvh_intersect with one ray and one record against tree A and then   *)
(* tree B leaves rec.t at the least accepted distance over the triangles   *)
(* of both trees, and the rec.t and hit flag of B first and then A.        *)
(***************************************************************************)
C9_CloserWinsAcrossTrees ==
    (pc = "done" /\ Len(passes) = 2 /\ passes[1] # passes[2]) =>
        LET A    == passes[1]
            B    == passes[2]
            both == Scan(TreeItems(A) \o TreeItems(B), ray, recInit)
            b    == bvh_intersect(heap, roots[B], ray, recInit)
            ba   == bvh_intersect(heap, roots[A], ray, b.rec)
        IN  /\ rec.t = both.rec.t
            /\ rec.t = ba.rec.t
            /\ rec.hit = ba.rec.hit

(***************************************************************************)
(* C10: bvh_build returns NULL exactly when the models hold no triangle at *)
(* all.                                                                    *)
(***************************************************************************)
C10_NullIffNoTriangles ==
    \A k \in 1 .. Len(roots) :
        (roots[k] = NULL) <=>
            (\A m \in 1 .. Len(scenes[k]) : ModelOf(scenes[k][m]).num_triangles = 0)

C10_Witness ==
    /\ Len(roots) = 1
    /\ roots[1] = NULL
    /\ Len(scenes[1]) >= 1

(***************************************************************************)
(* C11: bvh_intersect on a NULL root (the tree of a scene without          *)
(* triangles) returns false and leaves every field of the record as it     *)
(* was, whatever the ray and the record.                                   *)
(***************************************************************************)
C11_NullRootNoOp ==
    (pc = "done" /\ roots[CurTree] = NULL) => (~ret /\ rec = rec0 /\ sp = 0)

C11_Witness ==
    /\ pc = "done" /\ roots[CurTree] = NULL
    /\ rec0 = Earlier /\ ray # NoRay

(***************************************************************************)
(* C12: two trees built from the same (triangle, material) pairs in two    *)
(* input orders have the same root bounds, and for every ray bvh_intersect *)
(* with a fresh record gives the same return value and the same record (t, *)
(* point, normal, material) on both.                                       *)
(***************************************************************************)
\* the number of items of the sequence s equal to x
Occurrences(s, x) == Cardinality({j \in 1 .. Len(s) : s[j] = x})

\* s and t hold the same items, each as often
SameItems(s, t) ==
    /\ Len(s) = Len(t)
    /\ \A j \in 1 .. Len(s) : Occurrences(s, s[j]) = Occurrences(t, s[j])

C12_OrderIndependent ==
    (pc = "done" /\ FreshCall /\ Len(roots) = 2
        /\ SameItems(TreeItems(1), TreeItems(2))) =>
        LET other == 3 - CurTree
        IN  /\ (roots[1] = NULL) <=> (roots[2] = NULL)
            /\ roots[1] # NULL => heap[roots[1]].bounds = heap[roots[2]].bounds
            /\ bvh_intersect(heap, roots[other], ray, Fresh) = [ret |-> ret, rec |-> rec]

(***************************************************************************)
(* C13: once the tree is built no step of any bvh_intersect call changes a *)
(* node or a leaf array, and however the calls of several threads on the   *)
(* one tree interleave, each with a record of its own, every call returns  *)
(* what it returns when it runs alone and leaves the record it then leaves.*)
(***************************************************************************)
\* the thread with context c has returned with the result of the call run alone
AsAlone(c) ==
    c.pc = "done" =>
        bvh_intersect(heap, roots[c.passes[Len(c.passes)]], c.ray, c.rec0)
            = [ret |-> c.ret, rec |-> c.rec]

TreeUntouched == pc # "scene" => (heap' = heap /\ roots' = roots)

C13_ConcurrentReads ==
    /\ [][TreeUntouched]_vars
    /\ [](\A c \in BagToSet(parked) \cup {Ctx} : AsAlone(c))

\* a call has returned a hit while the call of another thread, with another ray, is
\* in the middle of a leaf
C13_Witness ==
    /\ pc = "done" /\ ret
    /\ \E c \in BagToSet(parked) : c.pc = "leaf" /\ c.i > 0 /\ c.ray # ray

(***************************************************************************)
(* core.h: a window is created, its buffer resized, and destroyed          *)
(***************************************************************************)
\* a free() of an address that is not allocated is undefined: the call goes on, or
\* the allocator ends the process
Outcomes(w, after) ==
    IF after.wild # w.wild THEN {after, [after EXCEPT !.op = "abort"]} ELSE {after}

WindowStep(results, name) ==
    /\ xwin.op # "abort"
    /\ \E r \in results : xwin' \in Outcomes(xwin, [r EXCEPT !.op = name])
    /\ UNCHANGED treeVars
    /\ UNCHANGED <<inputVars, probe, mem>>

\* createWindow(&w) on a window that has no display
CreateWindow == ~xwin.display /\ WindowStep(createWindow(xwin), "createWindow")

\* resizeBuffer(&w) on a window that createWindow made
ResizeBuffer == xwin.display /\ WindowStep(resizeBuffer(xwin), "resizeBuffer")

\* destroyWindow(&w)
DestroyWindow == WindowStep({[destroyWindow(xwin) EXCEPT !.ret = TRUE]}, "destroyWindow")

NextWindow ==
    \/ CreateWindow
    \/ ResizeBuffer
    \/ DestroyWindow

SpecWindow == Init /\ [][NextWindow]_vars

(***************************************************************************)
(* The shape of a tree in the heap                                         *)
(***************************************************************************)
\* the nodes of the subtree of h at n (a node with count # 0 is a leaf)
RECURSIVE NodesOf(_, _)
NodesOf(h, n) ==
    IF n = NULL THEN {}
    ELSE IF h[n].count # 0 THEN {n}
    ELSE {n} \cup NodesOf(h, h[n].left) \cup NodesOf(h, h[n].right)

\* the (triangle, material) pairs the leaves of the subtree at n store, left to right
RECURSIVE LeafItems(_, _)
LeafItems(h, n) ==
    IF n = NULL THEN <<>>
    ELSE IF h[n].count # 0
      THEN [j \in 1 .. h[n].count |-> [tri |-> h[n].tris[j], mat |-> h[n].mats[j]]]
      ELSE LeafItems(h, h[n].left) \o LeafItems(h, h[n].right)

Size(h, n) == Len(LeafItems(h, n))

\* the depths of the leaves of the subtree at n, n being at depth d
RECURSIVE LeafDepths(_, _, _)
LeafDepths(h, n, d) ==
    IF n = NULL THEN {}
    ELSE IF h[n].count # 0 THEN {d}
    ELSE LeafDepths(h, h[n].left, d + 1) \cup LeafDepths(h, h[n].right, d + 1)

\* the (triangle, material) pairs of the items
Pairs(items) == [j \in 1 .. Len(items) |-> [tri |-> items[j].tri, mat |-> items[j].mat]]

\* the (triangle, material) pairs bvh_build was given for tree k
InputPairs(k) == Pairs(TreeItems(k))

\* the trees built so far
Trees == {k \in 1 .. Len(roots) : roots[k] # NULL}

Least(S) == CHOOSE x \in S : \A y \in S : FLe(x, y)

Greatest(S) == CHOOSE x \in S : \A y \in S : FGe(x, y)

\* the least e with 2^e >= n
RECURSIVE CeilLog2(_)
CeilLog2(n) == IF n <= 1 THEN 0 ELSE 1 + CeilLog2((n + 1) \div 2)

(***************************************************************************)
(* C15: in every tree of bvh_build every node's bounds has min <= max on   *)
(* each axis and is, per axis, the least and the greatest coordinate over  *)
(* the vertices of the triangles in the node's subtree; an internal node's *)
(* bounds is also the merge of its children's bounds.                      *)
(***************************************************************************)
\* the coordinates on axis a of the vertices of the items its
Coords(its, a) ==
    UNION {{Axis(its[j].tri.v0, a), Axis(its[j].tri.v1, a), Axis(its[j].tri.v2, a)} :
           j \in 1 .. Len(its)}

C15_TightBounds ==
    \A k \in Trees : \A n \in NodesOf(heap, roots[k]) :
        /\ \A a \in 0 .. 2 :
              /\ FLe(Axis(heap[n].bounds.min, a), Axis(heap[n].bounds.max, a))
              /\ Axis(heap[n].bounds.min, a) = Least(Coords(LeafItems(heap, n), a))
              /\ Axis(heap[n].bounds.max, a) = Greatest(Coords(LeafItems(heap, n), a))
        /\ heap[n].count = 0 =>
              heap[n].bounds = box_merge(heap[heap[n].left].bounds, heap[heap[n].right].bounds)

\* an internal root over an internal node, whose children have different bounds
C15_Witness ==
    \E k \in Trees :
        /\ heap[roots[k]].count = 0
        /\ heap[heap[roots[k]].right].count = 0
        /\ heap[heap[roots[k]].left].bounds # heap[heap[roots[k]].right].bounds

(***************************************************************************)
(* C16: in every tree of bvh_build a node over n items is a leaf exactly   *)
(* when n <= 4; a leaf has count n in 1 .. 4, arrays of n triangles and n  *)
(* materials and NULL children; an internal node has count 0, NULL arrays  *)
(* and two children; the leaves together hold exactly the input pairs.     *)
(***************************************************************************)
C16_LeafPolicy ==
    \A k \in Trees :
        /\ \A given \in {InputPairs(k)} :
              /\ SameItems(LeafItems(heap, roots[k]), given)
              /\ Len(given) <= 4 => LeafItems(heap, roots[k]) = given
        /\ \A n \in NodesOf(heap, roots[k]) :
              /\ (heap[n].left = NULL /\ heap[n].right = NULL) <=> Size(heap, n) <= 4
              /\ IF heap[n].left = NULL /\ heap[n].right = NULL
                   THEN /\ heap[n].count \in 1 .. 4
                        /\ Len(heap[n].tris) = heap[n].count
                        /\ Len(heap[n].mats) = heap[n].count
                   ELSE /\ heap[n].count = 0
                        /\ heap[n].tris = <<>> /\ heap[n].mats = <<>>
                        /\ heap[n].left # NULL /\ heap[n].right # NULL

\* a tree over five items: an internal root over two leaves
C16_Witness ==
    \E k \in Trees : Len(InputPairs(k)) = 5 /\ heap[roots[k]].count = 0

(***************************************************************************)
(* C17: in every tree of bvh_build over n >= 1 items, whatever their       *)
(* centroids, the children of an internal node over m items hold           *)
(* floor(m/2) and m - floor(m/2) items, the depths of two leaves differ by *)
(* at most 1 and the height is at most ceil(log2(n)).                      *)
(***************************************************************************)
C17_Balanced ==
    \A k \in Trees :
        /\ \A n \in NodesOf(heap, roots[k]) :
              heap[n].count = 0 =>
                  \A m \in {Size(heap, n)} :
                      /\ Size(heap, heap[n].left) = m \div 2
                      /\ Size(heap, heap[n].right) = m - m \div 2
        /\ \A height \in {CeilLog2(Len(TreeItems(k)))} :
              \A d1, d2 \in LeafDepths(heap, roots[k], 0) : d1 - d2 <= 1 /\ d1 <= height

\* leaves at two depths, over items whose centroids are all the same
C17_Witness ==
    \E k \in Trees :
        /\ LeafDepths(heap, roots[k], 0) = {1, 2}
        /\ \A j \in 1 .. Len(TreeItems(k)) : TreeItems(k)[j].center = TreeItems(k)[1].center

(***************************************************************************)
(* C18: the stack of bvh_intersect never holds more than 64 entries, so no *)
(* entry is written outside stack[0 .. 63], whatever the tree; and when    *)
(* the box test of an internal node passes, its two children are both      *)
(* pushed unless pushing both would exceed 64 entries.                     *)
(***************************************************************************)
\* a step that pops an internal node whose box the ray passes pushes both children
\* when they fit and none otherwise
PushesWhenRoom ==
    (/\ pc = "loop" /\ sp > 0
     /\ heap[stack[sp]].count = 0
     /\ box_hit(heap[stack[sp]].bounds, ray, T_MIN, rec.t)) =>
        stack' = IF (sp - 1) + 2 <= STACK_SIZE
                   THEN SubSeq(stack, 1, sp - 1)
                            \o <<heap[stack[sp]].left, heap[stack[sp]].right>>
                   ELSE SubSeq(stack, 1, sp - 1)

C18_StackWithinCapacity ==
    /\ [](sp <= STACK_SIZE)
    /\ [][PushesWhenRoom]_vars

(***************************************************************************)
(* C19: every call of bvh_intersect returns: each iteration of its loop    *)
(* takes one node off the stack, no node of the tree is put on the stack   *)
(* twice in one call, and the call returns when the stack is empty.        *)
(***************************************************************************)
\* an iteration takes the top entry off and puts nothing or two entries in its place
PopsOne ==
    (pc = "loop" /\ sp > 0) =>
        /\ SubSeq(stack', 1, sp - 1) = SubSeq(stack, 1, sp - 1)
        /\ Len(stack') \in {sp - 1, sp + 1}

\* the call goes on while the stack holds an entry and returns once it holds none
ReturnsWhenEmpty == (pc = "loop" /\ pc' = "done") => sp = 0

InCall == pc \in {"loop", "leaf"}

C19_Terminates ==
    /\ InCall ~> (pc = "done")
    /\ [](\A a, b \in 1 .. Len(pushed) : pushed[a] = pushed[b] => a = b)
    /\ [](pc = "done" => sp = 0)
    /\ [][PopsOne /\ ReturnsWhenEmpty]_vars

\* a call has returned after visiting the leaves of both children of the root
C19_Witness ==
    /\ pc = "done" /\ Len(pushed) = 3
    /\ hit

(***************************************************************************)
(* C20: under the frame protocol (pollEvents once per frame, updateInput   *)
(* never called by the application), in the frame after a pollEvents call  *)
(* that consumed a key-down event for a key that was up isKeyPressed(key)  *)
(* is true, after one that consumed a key-up event for a key that was down *)
(* isKeyReleased(key) is true, and likewise isMousePressed and             *)
(* isMouseReleased for the buttons. Where the call consumed several events *)
(* for one key or button the last one counts.                              *)
(***************************************************************************)
\* the last pollEvents call consumed an event of the given type for the key, and no
\* later event for that key
LastKeyEvent(type, key) ==
    \E j \in 1 .. Len(polled.keys) :
        /\ polled.keys[j] = [type |-> type, key |-> key]
        /\ \A l \in j + 1 .. Len(polled.keys) : polled.keys[l].key # key

LastButtonEvent(type, btn) ==
    \E j \in 1 .. Len(polled.buttons) :
        /\ polled.buttons[j] = [type |-> type, btn |-> btn]
        /\ \A l \in j + 1 .. Len(polled.buttons) : polled.buttons[l].btn # btn

\* the key or button was down before the last pollEvents call
WasKeyDown(key) == polled.key_before[key]

WasMouseDown(btn) == polled.mouse_before[btn]

C20_EdgesVisible ==
    polled.called =>
        /\ \A key \in 1 .. KEY_COUNT - 1 :
              /\ (LastKeyEvent("KeyPress", key) /\ ~WasKeyDown(key))
                    => isKeyPressed(input, key)
              /\ (LastKeyEvent("KeyRelease", key) /\ WasKeyDown(key))
                    => isKeyReleased(input, key)
        /\ \A btn \in 0 .. MOUSE_COUNT - 1 :
              /\ (LastButtonEvent("ButtonPress", btn) /\ ~WasMouseDown(btn))
                    => isMousePressed(input, btn)
              /\ (LastButtonEvent("ButtonRelease", btn) /\ WasMouseDown(btn))
                    => isMouseReleased(input, btn)

(***************************************************************************)
(* C21: in every tree of bvh_build the items of a node over more than 4    *)
(* items are split along the axis on which the node's bounds is longest,   *)
(* of several longest axes the first of x, y, z: x unless extent.y >       *)
(* extent.x, and z only if extent.z is greater than the extent on the axis *)
(* chosen between x and y.                                                 *)
(***************************************************************************)
Extent(b, a) == FSub(Axis(b.max, a), Axis(b.min, a))

\* the first of x, y, z among the axes on which the box is longest
LongestFirst(b) ==
    CHOOSE a \in 0 .. 2 :
        /\ \A c \in 0 .. 2 : FGe(Extent(b, a), Extent(b, c))
        /\ \A c \in 0 .. a - 1 : FGt(Extent(b, a), Extent(b, c))

\* the centroid of a triangle: the mean of its three vertices
Centroid(t, a) == FDiv(FAdd(FAdd(Axis(t.v0, a), Axis(t.v1, a)), Axis(t.v2, a)), F(3))

\* on axis a no item of the left child of n lies beyond an item of its right child
SplitAlong(h, n, a) ==
    \A l \in {LeafItems(h, h[n].left)}, r \in {LeafItems(h, h[n].right)} :
        \A p \in 1 .. Len(l), q \in 1 .. Len(r) :
            FLe(Centroid(l[p].tri, a), Centroid(r[q].tri, a))

\* the internal nodes of the trees built so far
InternalNodes == UNION {{n \in NodesOf(heap, roots[k]) : heap[n].count = 0} : k \in Trees}

C21_LongestAxis ==
    \A n \in InternalNodes :
        /\ SplitAxis(heap[n].bounds) = LongestFirst(heap[n].bounds)
        /\ SplitAlong(heap, n, LongestFirst(heap[n].bounds))
        /\ SplitAxis(heap[n].bounds) = 1 <=>
              FGt(Extent(heap[n].bounds, 1), Extent(heap[n].bounds, 0))
                 /\ FLe(Extent(heap[n].bounds, 2), Extent(heap[n].bounds, 1))
        /\ SplitAxis(heap[n].bounds) = 2 <=>
              /\ FGt(Extent(heap[n].bounds, 2), Extent(heap[n].bounds, 0))
              /\ FGt(Extent(heap[n].bounds, 2), Extent(heap[n].bounds, 1))

\* an internal node as long in x as in y and z, whose items are split along x and
\* neither along y nor along z
C21_Witness ==
    \E n \in InternalNodes :
          /\ Extent(heap[n].bounds, 0) = Extent(heap[n].bounds, 1)
          /\ Extent(heap[n].bounds, 0) = Extent(heap[n].bounds, 2)
          /\ ~SplitAlong(heap, n, 1) /\ ~SplitAlong(heap, n, 2)

(***************************************************************************)
(* C22: in every tree of bvh_build, for every internal node over n items,  *)
(* the left child holds floor(n/2) items, and on the node's split axis the *)
(* centroid (the mean of the three vertices) of every item of the left     *)
(* child is less than or equal to that of every item of the right child:   *)
(* the left child holds the first floor(n/2) items of the sorted order.    *)
(***************************************************************************)
C22_SortedSplit ==
    \A n \in InternalNodes :
        \A a \in {SplitAxis(heap[n].bounds)},
           l \in {LeafItems(heap, heap[n].left)}, r \in {LeafItems(heap, heap[n].right)} :
            /\ Len(l) = (Len(l) + Len(r)) \div 2
            /\ \A p \in 1 .. Len(l), q \in 1 .. Len(r) :
                  FLe(Centroid(l[p].tri, a), Centroid(r[q].tri, a))

\* an internal node over an internal node that is split along another axis, the
\* centroids of its own two children being apart on its axis
C22_Witness ==
    \E n \in InternalNodes :
        /\ heap[heap[n].right].count = 0
        /\ SplitAxis(heap[heap[n].right].bounds) # SplitAxis(heap[n].bounds)
        /\ \E p \in 1 .. Size(heap, heap[n].left), q \in 1 .. Size(heap, heap[n].right) :
              FLt(Centroid(LeafItems(heap, heap[n].left)[p].tri, SplitAxis(heap[n].bounds)),
                  Centroid(LeafItems(heap, heap[n].right)[q].tri, SplitAxis(heap[n].bounds)))

(***************************************************************************)
(* C23: intersect_triangle returns true and updates the record if and only *)
(* if |det| >= EPSILON, 0 <= u <= 1, 0 <= v, u + v <= 1 and t is inside    *)
(* the interval from EPSILON to rec.t; in every other case it returns      *)
(* false and leaves the record as it was. As claimed the interval is open  *)
(* at both ends (C23_OpenInterval); C23_HalfOpenInterval has it closed at  *)
(* EPSILON and open at rec.t.                                              *)
(***************************************************************************)
\* the ray o + t d meets the plane of the triangle at v0 + u e1 + v e2: det, u, v and
\* t by Cramer's rule
Det(r, tri) == dot(sub(tri.v1, tri.v0), cross(r.direction, sub(tri.v2, tri.v0)))

BaryU(r, tri) ==
    FDiv(dot(sub(r.origin, tri.v0), cross(r.direction, sub(tri.v2, tri.v0))), Det(r, tri))

BaryV(r, tri) ==
    FDiv(dot(r.direction, cross(sub(r.origin, tri.v0), sub(tri.v1, tri.v0))), Det(r, tri))

Dist(r, tri) ==
    FDiv(dot(sub(tri.v2, tri.v0), cross(sub(r.origin, tri.v0), sub(tri.v1, tri.v0))),
         Det(r, tri))

InsideTriangle(r, tri) ==
    /\ FGe(fabsf(Det(r, tri)), EPSILON)
    /\ FLe(F(0), BaryU(r, tri)) /\ FLe(BaryU(r, tri), F(1))
    /\ FLe(F(0), BaryV(r, tri)) /\ FLe(FAdd(BaryU(r, tri), BaryV(r, tri)), F(1))

\* the direct call returned true and wrote the hit at distance t, or returned false and
\* wrote nothing, as accept says
Decides(accept) ==
    /\ probe.res.ret = accept
    /\ IF accept
         THEN /\ probe.res.rec.hit
              /\ probe.res.rec.t = Dist(probe.ray, probe.tri)
              /\ probe.res.rec.point = At(probe.ray, Dist(probe.ray, probe.tri))
              /\ probe.res.rec.normal = norm(FaceNormal(probe.tri))
              /\ probe.res.rec.mat = probe.mat
         ELSE probe.res.rec = probe.rec

C23_OpenInterval ==
    probe.op = "intersect_triangle" =>
        Decides(/\ InsideTriangle(probe.ray, probe.tri)
                /\ FGt(Dist(probe.ray, probe.tri), EPSILON)
                /\ FLt(Dist(probe.ray, probe.tri), probe.rec.t))

C23_HalfOpenInterval ==
    probe.op = "intersect_triangle" =>
        Decides(/\ InsideTriangle(probe.ray, probe.tri)
                /\ FGe(Dist(probe.ray, probe.tri), EPSILON)
                /\ FLt(Dist(probe.ray, probe.tri), probe.rec.t))

\* a hit at the distance EPSILON is accepted
C23_Witness ==
    /\ probe.op = "intersect_triangle"
    /\ probe.res.ret
    /\ probe.res.rec.t = EPSILON

(***************************************************************************)
(* C24: a triangle of zero area (collinear or coinciding vertices) is      *)
(* stored by bvh_build like any other triangle, and no step of             *)
(* bvh_intersect that tests it with intersect_triangle changes the record  *)
(* or the hit flag, whatever the ray.                                      *)
(***************************************************************************)
ZeroArea(tri) == FaceNormal(tri) = Zero3

\* the leaves of every tree hold each zero-area pair of the input as often as the
\* input does
ZeroAreaStored ==
    \A k \in Trees :
        \A given \in {InputPairs(k)}, kept \in {LeafItems(heap, roots[k])} :
            \A j \in 1 .. Len(given) :
                ZeroArea(given[j].tri) => Occurrences(kept, given[j]) = Occurrences(given, given[j])

\* the leaf loop's test of a zero-area triangle leaves the record and the flag alone
ZeroAreaNoHit ==
    (pc = "leaf" /\ ZeroArea(heap[node].tris[i + 1])) => (rec' = rec /\ hit' = hit)

C24_ZeroAreaNeverHit ==
    /\ []ZeroAreaStored
    /\ [][ZeroAreaNoHit]_vars

\* the leaf loop has tested a zero-area triangle whose box the ray meets, and goes on
C24_Witness ==
    /\ pc = "leaf" /\ i >= 1
    /\ ZeroArea(heap[node].tris[i])
    /\ RayMeetsBox(ray, box_tri(heap[node].tris[i]))

(***************************************************************************)
(* C25: in box_hit an axis on which the ray's direction is 0 leaves the    *)
(* interval [tmin, tmax] as it is when the origin lies within the box on   *)
(* that axis (its faces included) and rejects the box when the origin lies *)
(* outside; every other axis clips the interval to the distances [t0, t1]  *)
(* at which the ray crosses the two faces; the box is rejected exactly     *)
(* when, after an axis, tmax <= tmin.                                      *)
(***************************************************************************)
Smaller(a, b) == IF FLt(b, a) THEN b ELSE a

Larger(a, b) == IF FLt(a, b) THEN b ELSE a

\* the distance at which the ray r crosses the plane at coordinate c of axis a
CrossAt(r, a, c) == FDiv(FSub(c, Axis(r.origin, a)), Axis(r.direction, a))

\* the result of the axes from a on, the interval being [lo, hi] before them
RECURSIVE SlabsFrom(_, _, _, _, _)
SlabsFrom(b, r, lo, hi, a) ==
    IF a > 2 THEN TRUE
    ELSE IF Axis(r.direction, a) = F(0)
      THEN /\ FLe(Axis(b.min, a), Axis(r.origin, a))
           /\ FLe(Axis(r.origin, a), Axis(b.max, a))
           /\ ~FLe(hi, lo)
           /\ SlabsFrom(b, r, lo, hi, a + 1)
      ELSE LET t0  == Smaller(CrossAt(r, a, Axis(b.min, a)), CrossAt(r, a, Axis(b.max, a)))
               t1  == Larger(CrossAt(r, a, Axis(b.min, a)), CrossAt(r, a, Axis(b.max, a)))
               lo2 == Larger(lo, t0)
               hi2 == Smaller(hi, t1)
           IN  ~FLe(hi2, lo2) /\ SlabsFrom(b, r, lo2, hi2, a + 1)

C25_ZeroDirection ==
    probe.op = "box_hit" =>
        probe.ret = SlabsFrom(probe.box, probe.ray, probe.tmin, probe.tmax, 0)

\* the box is passed by a ray whose direction is 0 on an axis on which its origin lies
\* on a face of the box
C25_Witness ==
    /\ probe.op = "box_hit"
    /\ probe.ret
    /\ \E a \in 0 .. 2 :
          /\ Axis(probe.ray.direction, a) = F(0)
          /\ Axis(probe.ray.origin, a) \in {Axis(probe.box.min, a), Axis(probe.box.max, a)}
          /\ Axis(probe.box.min, a) # Axis(probe.box.max, a)

(***************************************************************************)
(* C26: bvh_free(root) on a tree of bvh_build hands every node of the tree *)
(* and the tris and mats arrays of every leaf to free() exactly once and   *)
(* nothing else, reads no node through a NULL pointer or after it was      *)
(* freed, and bvh_free(NULL) does nothing.                                 *)
(***************************************************************************)
\* the blocks bvh_build allocated for the subtree of h at n
BlocksOf(h, n) ==
    {Frees("node", m) : m \in NodesOf(h, n)}
        \cup {Frees(kind, m) : kind \in {"tris", "mats"},
                               m \in {l \in NodesOf(h, n) : h[l].count # 0}}

\* what the call c did to memory
FreedOnce(c) ==
    \A did \in {mem[c].did} :
        /\ \A b \in BlocksOf(heap, roots[mem[c].tree]) : Occurrences(did, b) = 1
        /\ \A j \in 1 .. Len(did) :
              /\ did[j].op = "free" => did[j] \in BlocksOf(heap, roots[mem[c].tree])
              /\ did[j].op = "read" =>
                    /\ did[j].node # NULL
                    /\ \A l \in 1 .. j - 1 : did[l] # Frees("node", did[j].node)
        /\ roots[mem[c].tree] = NULL => did = <<>>

C26_FreedExactlyOnce == \A c \in 1 .. Len(mem) : FreedOnce(c)

\* a tree with an internal node under its root has been freed
C26_Witness ==
    \E c \in 1 .. Len(mem) :
        /\ roots[mem[c].tree] # NULL
        /\ heap[roots[mem[c].tree]].count = 0
        /\ heap[heap[roots[mem[c].tree]].right].count = 0

(***************************************************************************)
(* C27: on a tree of bvh_build, whose height the median split bounds by    *)
(* the logarithm of its size, the stack of bvh_intersect never holds more  *)
(* than height + 1 entries, so the capacity guard holds at every internal  *)
(* node whose box the ray passes and both its children are pushed.         *)
(***************************************************************************)
\* the height of the subtree at n: the depth of its deepest leaf
Height(h, n) == CHOOSE d \in LeafDepths(h, n, 0) : \A e \in LeafDepths(h, n, 0) : e <= d

\* the tree the running call traverses
Traversed == roots[passes[Len(passes)]]

HeightBounded == \A k \in Trees : 2 ^ Height(heap, roots[k]) <= Size(heap, roots[k])

StackWithinHeight == pc \in {"loop", "leaf"} => sp <= Height(heap, Traversed) + 1

\* a step that pops an internal node whose box the ray passes finds room and pushes
\* both children
NeverSkips ==
    (/\ pc = "loop" /\ sp > 0
     /\ heap[stack[sp]].count = 0
     /\ box_hit(heap[stack[sp]].bounds, ray, T_MIN, rec.t)) =>
        /\ (sp - 1) + 2 < STACK_SIZE
        /\ Len(stack') = sp + 1
        /\ stack'[sp] = heap[stack[sp]].left
        /\ stack'[sp + 1] = heap[stack[sp]].right

C27_StackWithinHeight ==
    /\ [](HeightBounded /\ StackWithinHeight)
    /\ [][NeverSkips]_vars

\* the stack holds height + 1 entries in a tree of height 2
C27_Witness ==
    /\ pc = "loop"
    /\ Height(heap, Traversed) = 2
    /\ sp = 3

(***************************************************************************)
(* C28: for a triangle, a box that contains it and a ray, box_hit(box,     *)
(* ray, 0.001, rec.t) is true whenever intersect_triangle accepts the      *)
(* triangle against rec.                                                   *)
(***************************************************************************)
\* the box of the pair of calls contains the triangle
Contains(box, tri) ==
    \A v \in {tri.v0, tri.v1, tri.v2}, a \in 0 .. 2 :
        FLe(Axis(box.min, a), Axis(v, a)) /\ FLe(Axis(v, a), Axis(box.max, a))

C28_BoxConservative ==
    (probe.op = "both" /\ Contains(probe.box, probe.tri) /\ probe.accepts) => probe.passes

(***************************************************************************)
(* C29: the leaves of a tree of bvh_build store each pair of a transformed *)
(* triangle and the material of the model that owns it as many times as    *)
(* the input models hold it: none is dropped, duplicated or given the      *)
(* material of another model.                                              *)
(***************************************************************************)
\* how often the models ms[from ..] hold the triangle of p under the material of p
RECURSIVE Held(_, _, _)
Held(ms, from, p) ==
    IF from > Len(ms) THEN 0
    ELSE (IF ms[from].mat = p.mat
            THEN Cardinality({j \in 1 .. ms[from].num_triangles :
                                 ms[from].transformed_triangles[j] = p.tri})
            ELSE 0)
         + Held(ms, from + 1, p)

\* the pairs the models ms can hold or be mistaken to hold: each triangle with each
\* material
PairsOver(ms) ==
    UNION {{[tri |-> ms[a].transformed_triangles[j], mat |-> ms[b].mat] :
               j \in 1 .. ms[a].num_triangles, b \in 1 .. Len(ms)} : a \in 1 .. Len(ms)}

\* the pairs of the leaves of tree k
Stored(k) == LeafItems(heap, roots[k])

C29_ScenePreserved ==
    \A k \in 1 .. Len(roots) :
        \A ms \in {Scene(scenes[k])} :
            /\ \A j \in 1 .. Len(Stored(k)) : Stored(k)[j] \in PairsOver(ms)
            /\ \A p \in PairsOver(ms) : Occurrences(Stored(k), p) = Held(ms, 1, p)

\* a leaf holds triangles of two models, and some pair is held three times or more
C29_Witness ==
    \E k \in Trees :
        /\ \E n \in NodesOf(heap, roots[k]) :
              \E a, b \in 1 .. heap[n].count : heap[n].mats[a] # heap[n].mats[b]
        /\ \E j \in 1 .. Len(Stored(k)) : Occurrences(Stored(k), Stored(k)[j]) >= 3

(***************************************************************************)
(* C30: across createWindow, any number of resizeBuffer and destroyWindow  *)
(* no block of framebuffer memory is freed twice (by freeBuffer and again  *)
(* by XDestroyImage), the buffer in use is allocated, nothing stays        *)
(* allocated once the window is destroyed, and after every call            *)
(* buffer_valid is true exactly when buffer is not NULL.                   *)
(***************************************************************************)
C30_ReleasedOnce ==
    xwin.op # "abort" =>
        /\ xwin.wild = {}
        /\ xwin.buffer # NULL => xwin.buffer \in xwin.live
        /\ ~xwin.display => xwin.live = {}
        /\ xwin.buffer_valid <=> xwin.buffer # NULL

====
